---- MODULE Spec2Model ----
(***************************************************************************)
(* Weighted multi-window rate limiter and rate-limited dispatch of the     *)
(* Binance MCP server (binance_mcp_server/utils.py).                       *)
(*                                                                         *)
(* Representation.  The code keeps token counts and timestamps as floats.  *)
(* Here the clock advances in ticks of 1/TicksPerSec seconds and a token   *)
(* count is kept in units of 1/Scale token, Scale = 60 * TicksPerSec, so   *)
(* that one tick of refill adds exactly max(1, refill_per_minute) units:   *)
(* elapsed * refill_rate is computed exactly, without rounding.  A cost is *)
(* a rational number kept as an integer count of 1/CostDen, so that int()  *)
(* has something to truncate.                                              *)
(***************************************************************************)
EXTENDS Integers, Sequences, FiniteSets, TLC

\* ---- bounds of the model ------------------------------------------------
TicksPerSec == 2
MaxTime == 4
CostDen == 2
MaxCost == 6

\* ---- program constants --------------------------------------------------
SecondsPerMinute == 60
\* WeightedRateLimiter(capacity=10, refill_per_minute=60)
SingleCapacity == 10
SingleRefillPerMinute == 60
\* MultiWindowRateLimiter(per_minute=6, per_second=2)
PerMinute == 6
PerSecond == 2
\* rate_limited(rl, cost=2)
DecoratorCost == 2
\* int(time.time() * 1000)
MillisPerSecond == 1000
\* estimate_weight_for_all_orders() and estimate_weight_for_create_order()
AllOrdersWeight == 10
CreateOrderWeight == 1
\* validate_symbol: the least and the greatest length of a symbol
SymbolMin == 3
SymbolMax == 20
\* _sanitize_error_message: the shortest run of letters and digits taken for
\* a key, and the lengths of "secret" and of "[REDACTED]"
RunMin == 32
SecretLen == 6
MarkerLen == 10
\* MultiWindowRateLimiter(_SPOT_PER_MIN, _SPOT_PER_SEC), whose per-second limit
\* defaults to its per-minute limit, scaled down from 1200 (a bound)
EqualLimit == 2
\* threads calling into one limiter, and calls they begin at most
NumThreads == 2
MaxBegun == 3
\* invocations of wrapped operations a run makes at most
MaxCalls == 2
MaxSegs == 3
MaxKeys == 2
MaxSym == 3
DepthSpread == 8
\* what time.time() returns when the model starts, in seconds
Epoch == 1000

Max(a, b) == IF a >= b THEN a ELSE b
Min(a, b) == IF a <= b THEN a ELSE b

\* token units per token
Scale == SecondsPerMinute * TicksPerSec

\* the clock readings time.time() can return are 0, ..., MaxTime, in ticks;
\* the limiters are created at the reading 0

\* costs a caller can pass: -1, -1/CostDen, 0, 1/CostDen, 1 + 1/CostDen and
\* the integers 1, ..., MaxCost
Costs == {0 - CostDen, 0 - 1, 0, 1, CostDen + 1} \cup {k * CostDen : k \in 1..MaxCost}

\* int(cost): truncation toward zero
PyInt(cost) == IF cost >= 0 THEN cost \div CostDen ELSE 0 - ((0 - cost) \div CostDen)

\* c = max(1, int(cost))
Coerce(cost) == Max(1, PyInt(cost))

\* ---- WeightedRateLimiter ------------------------------------------------
LimiterUncoerced(capacity, refill_per_minute, t) ==
    [capacity    |-> capacity,
     refill_rate |-> refill_per_minute,
     tokens      |-> capacity * Scale,
     last_refill |-> t]
\* __init__: refill_rate is kept in token units per tick, which is
\* max(1, refill_per_minute) / 60 tokens per second
WeightedRateLimiter(capacity, refill_per_minute, t) ==
    [capacity    |-> Max(1, capacity),
     refill_rate |-> Max(1, refill_per_minute),
     tokens      |-> Max(1, capacity) * Scale,
     last_refill |-> t]

RefillNoStamp(b, t) ==
    LET elapsed == t - b.last_refill
    IN  IF elapsed <= 0 THEN b
        ELSE [b EXCEPT !.tokens = Min(b.capacity * Scale, b.tokens + elapsed * b.refill_rate)]
RefillTwofold(b, t) ==
    LET elapsed == t - b.last_refill
    IN  IF elapsed <= 0 THEN b
        ELSE [b EXCEPT !.tokens = Min(b.capacity * Scale,
                                      b.tokens + 2 * elapsed * b.refill_rate),
                       !.last_refill = t]
RefillWholeTokens(b, t) ==
    LET elapsed == t - b.last_refill
    IN  IF elapsed <= 0 THEN b
        ELSE [b EXCEPT !.tokens = Min(b.capacity * Scale,
                                      b.tokens + ((elapsed * b.refill_rate) \div Scale) * Scale),
                       !.last_refill = t]
RefillStampsBack(b, t) ==
    LET elapsed == t - b.last_refill
    IN  IF elapsed <= 0 THEN [b EXCEPT !.last_refill = t]
        ELSE [b EXCEPT !.tokens = Min(b.capacity * Scale, b.tokens + elapsed * b.refill_rate),
                       !.last_refill = t]
\* _refill, with the clock reading t
_refill(b, t) ==
    LET elapsed == t - b.last_refill
    IN  IF elapsed <= 0 THEN b
        ELSE [b EXCEPT !.tokens = Min(b.capacity * Scale, b.tokens + elapsed * b.refill_rate),
                       !.last_refill = t]

ChargeAlways(b, cost, t) ==
    LET r == _refill(b, t)
        c == Coerce(cost)
    IN  IF r.tokens >= c * Scale
        THEN [bucket |-> [r EXCEPT !.tokens = @ - c * Scale], ok |-> TRUE]
        ELSE [bucket |-> [r EXCEPT !.tokens = Max(0, @ - c * Scale)], ok |-> FALSE]
\* try_consume, with the clock reading t: the bucket after the call and the
\* value returned
try_consume(b, cost, t) ==
    LET r == _refill(b, t)
        c == Coerce(cost)
    IN  IF r.tokens >= c * Scale
        THEN [bucket |-> [r EXCEPT !.tokens = @ - c * Scale], ok |-> TRUE]
        ELSE [bucket |-> r, ok |-> FALSE]

RefundNoClamp(b, cost) ==
    [b EXCEPT !.tokens = b.tokens + Coerce(cost) * Scale]
RefundUncoerced(b, cost) ==
    [b EXCEPT !.tokens = Min(b.capacity * Scale, b.tokens + PyInt(cost) * Scale)]
RefundRoundsUp(b, cost) ==
    [b EXCEPT !.tokens = Min(b.capacity * Scale,
                             b.tokens + Max(1, (cost + CostDen - 1) \div CostDen) * Scale)]
\* refund
refund(b, cost) ==
    [b EXCEPT !.tokens = Min(b.capacity * Scale, b.tokens + Coerce(cost) * Scale)]

\* ---- MultiWindowRateLimiter ---------------------------------------------
MultiSlowSecond(per_minute, per_second, t) ==
    [minute |-> WeightedRateLimiter(per_minute, per_minute, t),
     second |-> WeightedRateLimiter(per_second, per_second, t)]
\* __init__
MultiWindowRateLimiter(per_minute, per_second, t) ==
    [minute |-> WeightedRateLimiter(per_minute, per_minute, t),
     second |-> WeightedRateLimiter(per_second, per_second * SecondsPerMinute, t)]

MultiNoRefund(m, cost, t1, t2) ==
    LET s == try_consume(m.second, cost, t1)
        mi == try_consume(m.minute, cost, t2)
    IN  IF ~s.ok
        THEN [limiter |-> [m EXCEPT !.second = s.bucket],
              ok |-> FALSE, denied_by |-> "second"]
        ELSE IF ~mi.ok
        THEN [limiter |-> [second |-> s.bucket, minute |-> mi.bucket],
              ok |-> FALSE, denied_by |-> "minute"]
        ELSE [limiter |-> [second |-> s.bucket, minute |-> mi.bucket],
              ok |-> TRUE, denied_by |-> "none"]
MultiRefundsLess(m, cost, t1, t2) ==
    LET s == try_consume(m.second, cost, t1)
        mi == try_consume(m.minute, cost, t2)
    IN  IF ~s.ok
        THEN [limiter |-> [m EXCEPT !.second = s.bucket],
              ok |-> FALSE, denied_by |-> "second"]
        ELSE IF ~mi.ok
        THEN [limiter |-> [second |-> refund(s.bucket, cost - CostDen), minute |-> mi.bucket],
              ok |-> FALSE, denied_by |-> "minute"]
        ELSE [limiter |-> [second |-> s.bucket, minute |-> mi.bucket],
              ok |-> TRUE, denied_by |-> "none"]
MultiSecondPaysTwice(m, cost, t1, t2) ==
    LET s == try_consume(m.second, cost, t1)
        mi == try_consume(m.minute, cost, t2)
    IN  IF ~s.ok
        THEN [limiter |-> [m EXCEPT !.second = s.bucket],
              ok |-> FALSE, denied_by |-> "second"]
        ELSE IF ~mi.ok
        THEN [limiter |-> [second |-> refund(s.bucket, cost), minute |-> mi.bucket],
              ok |-> FALSE, denied_by |-> "minute"]
        ELSE [limiter |-> [second |-> try_consume(s.bucket, cost, t1).bucket,
                           minute |-> mi.bucket],
              ok |-> TRUE, denied_by |-> "none"]
MultiMinuteFirst(m, cost, t1, t2) ==
    LET mi == try_consume(m.minute, cost, t1)
        s == try_consume(m.second, cost, t2)
    IN  IF ~mi.ok
        THEN [limiter |-> [m EXCEPT !.minute = mi.bucket],
              ok |-> FALSE, denied_by |-> "minute"]
        ELSE IF ~s.ok
        THEN [limiter |-> [second |-> s.bucket, minute |-> refund(mi.bucket, cost)],
              ok |-> FALSE, denied_by |-> "second"]
        ELSE [limiter |-> [second |-> s.bucket, minute |-> mi.bucket],
              ok |-> TRUE, denied_by |-> "none"]
\* MultiWindowRateLimiter.try_consume: the second bucket reads the clock at t1,
\* the minute bucket, when it is consulted, at t2.  denied_by names the
\* return statement taken.
multi_try_consume(m, cost, t1, t2) ==
    LET s == try_consume(m.second, cost, t1)
        mi == try_consume(m.minute, cost, t2)
    IN  IF ~s.ok
        THEN [limiter |-> [m EXCEPT !.second = s.bucket],
              ok |-> FALSE, denied_by |-> "second"]
        ELSE IF ~mi.ok
        THEN [limiter |-> [second |-> refund(s.bucket, cost), minute |-> mi.bucket],
              ok |-> FALSE, denied_by |-> "minute"]
        ELSE [limiter |-> [second |-> s.bucket, minute |-> mi.bucket],
              ok |-> TRUE, denied_by |-> "none"]

\* ---- rate_limited ---------------------------------------------------------
\* the cost argument of the decorator: absent, a constant int (-1, ..., 2),
\* a constant that is no int, or a function of the call's arguments
CostSpecs ==
    {[kind |-> "none", value |-> 0], [kind |-> "other", value |-> 0],
     [kind |-> "callable", value |-> 0]}
      \cup {[kind |-> "const", value |-> k] : k \in (0 - 1)..DecoratorCost}

\* what a cost function does with the arguments of one call: it returns a
\* number (a cost up to one more than the per-second capacity), returns
\* something int() rejects, or raises
CostResults ==
    {[kind |-> "raise", value |-> 0], [kind |-> "not_a_number", value |-> 0]}
      \cup {[kind |-> "return", value |-> c] :
               c \in {c \in Costs : c <= (PerSecond + 1) * CostDen}}

\* the rate_limiter argument: an object with try_consume (the multi-window
\* limiter) or one with can_proceed alone, which answers as it likes
LimiterKinds == {"try_consume", "can_proceed"}

\* what the wrapped function does when it is invoked: it returns a mapping
\* (data, as f of test_rate_limited_decorator_cost does, or an error envelope
\* of its own) or raises
FuncResults ==
    {[kind |-> "return", value |-> [success |-> TRUE, type |-> "data", weight |-> 0, timestamp |-> 0]],
     [kind |-> "return", value |-> [success |-> FALSE, type |-> "validation_error", weight |-> 0, timestamp |-> 0]],
     [kind |-> "raise", value |-> [success |-> FALSE, type |-> "Exception", weight |-> 0, timestamp |-> 0]]}

\* the wrapped function of a call that was denied
NotInvoked == [kind |-> "none", value |-> [success |-> FALSE, type |-> "none", weight |-> 0, timestamp |-> 0]]

WeightNoFallback(spec, costres) ==
    IF spec.kind = "callable"
    THEN IF costres.kind = "return" THEN PyInt(costres.value) ELSE 0
    ELSE IF spec.kind = "const" THEN Max(1, spec.value)
    ELSE 1
\* the weight of a call (wrapper, "Determine weight cost")
Weight(spec, costres) ==
    IF spec.kind = "callable"
    THEN IF costres.kind = "return" THEN PyInt(costres.value) ELSE 1
    ELSE IF spec.kind = "const" THEN Max(1, spec.value)
    ELSE 1

\* ---- strings ------------------------------------------------------------------
\* A str that is validated is a sequence of characters; a member of an enum
\* holds one as its value and is not a str.
Str(chars) == [type |-> "str", chars |-> chars]
Member(enum, chars) == [type |-> enum, chars |-> chars]
isinstance(x, type) == x.type = type

LowerLetters ==
    <<"a", "b", "c", "d", "e", "f", "g", "h", "i", "j", "k", "l", "m",
      "n", "o", "p", "q", "r", "s", "t", "u", "v", "w", "x", "y", "z">>
UpperLetters ==
    <<"A", "B", "C", "D", "E", "F", "G", "H", "I", "J", "K", "L", "M",
      "N", "O", "P", "Q", "R", "S", "T", "U", "V", "W", "X", "Y", "Z">>
Digits == {"1", "2", "3"}
Letters ==
    {LowerLetters[i] : i \in DOMAIN LowerLetters}
      \cup {UpperLetters[i] : i \in DOMAIN UpperLetters}

\* of each letter, its upper-case and its lower-case form
CaseOf ==
    [c \in Letters |->
       LET k == CHOOSE k \in DOMAIN LowerLetters : c \in {LowerLetters[k], UpperLetters[k]}
       IN  [upper |-> UpperLetters[k], lower |-> LowerLetters[k]]]

\* str.upper, str.lower, str.strip, str.isalnum
upper(str) ==
    [i \in DOMAIN str |-> IF str[i] \in DOMAIN CaseOf THEN CaseOf[str[i]].upper ELSE str[i]]

lower(str) ==
    [i \in DOMAIN str |-> IF str[i] \in DOMAIN CaseOf THEN CaseOf[str[i]].lower ELSE str[i]]

strip(str) ==
    IF \A i \in DOMAIN str : str[i] = " " THEN <<>>
    ELSE LET first == CHOOSE i \in DOMAIN str :
                         str[i] # " " /\ \A k \in 1..(i - 1) : str[k] = " "
             last_ == CHOOSE i \in DOMAIN str :
                         str[i] # " " /\ \A k \in (i + 1)..Len(str) : str[k] = " "
         IN  SubSeq(str, first, last_)

isalnum(c) == c \in Letters \cup Digits

\* ---- error envelopes --------------------------------------------------------
\* A message is a sequence of segments: a run of n letters and digits that
\* spells none of the words the patterns look for, the word "secret", an
\* underscore, a blank, a colon or equals sign, any other punctuation mark,
\* or the marker "[REDACTED]".  Messages holding "api ... key", "token" or
\* "password" are not among those modelled.
Seg(cls, n) == [cls |-> cls, n |-> n]
Alnum(n) == Seg("alnum", n)
Secret == Seg("secret", SecretLen)
Under == Seg("under", 1)
Blank == Seg("blank", 1)
Equals == Seg("equals", 1)
Punct == Seg("punct", 1)
Marker == Seg("marker", MarkerLen)

\* [A-Za-z0-9] and \w
IsAlnum(s) == s.cls \in {"alnum", "secret"}
IsWord(s) == IsAlnum(s) \/ s.cls = "under"

\* len() of a message
RECURSIVE Chars(_)
Chars(msg) == IF msg = <<>> THEN 0 ELSE Head(msg).n + Chars(Tail(msg))

\* the last of the segments from i on that are all of one of the classes; i - 1
\* when msg[i] is of none
RECURSIVE RunEnd(_, _, _)
RunEnd(msg, i, classes) ==
    IF i > Len(msg) \/ msg[i].cls \notin classes THEN i - 1
    ELSE RunEnd(msg, i + 1, classes)

\* re.sub(r'\b[A-Za-z0-9]{32,}\b', '[REDACTED]', msg) from segment i on.  \b
\* holds only where a \w character meets a character that is none (or the end
\* of the text), so a match is a whole run of \w characters, and one that
\* holds no underscore.
RECURSIVE RedactLongRuns(_, _)
RedactLongRuns(msg, i) ==
    IF i > Len(msg) THEN <<>>
    ELSE IF ~IsWord(msg[i]) THEN <<msg[i]>> \o RedactLongRuns(msg, i + 1)
    ELSE LET j == RunEnd(msg, i, {"alnum", "secret", "under"})
             run == SubSeq(msg, i, j)
         IN  (IF (\A k \in DOMAIN run : IsAlnum(run[k])) /\ Chars(run) >= RunMin
              THEN <<Marker>> ELSE run)
               \o RedactLongRuns(msg, j + 1)

\* re.sub(r'(?i)secret[:\s=]*[A-Za-z0-9]+', '[REDACTED]', msg) from segment i
\* on: the word, any colons, blanks and equals signs, and the letters and
\* digits that follow, of which there must be one
RECURSIVE RedactSecret(_, _)
RedactSecret(msg, i) ==
    IF i > Len(msg) THEN <<>>
    ELSE IF msg[i].cls # "secret" THEN <<msg[i]>> \o RedactSecret(msg, i + 1)
    ELSE LET k == RunEnd(msg, i + 1, {"blank", "equals"})
             e == RunEnd(msg, k + 1, {"alnum", "secret"})
         IN  IF e > k THEN <<Marker>> \o RedactSecret(msg, e + 1)
             ELSE <<msg[i]>> \o RedactSecret(msg, i + 1)

\* _sanitize_error_message, of a message that is a str: the patterns one
\* after the other (the "api ... key", "token" and "password" patterns find
\* nothing in the messages modelled, nor in the marker)
_sanitize_error_message(message) == RedactSecret(RedactLongRuns(message, 1), 1)

\* a value of a type other than str, as the details of an envelope hold
\* them: an int, None, a nested dict
Value(type, v) == [type |-> type, chars |-> v]

\* the keys whose values _sanitize_error_details replaces
SensitiveKeys ==
    {<<"a", "p", "i", "_", "k", "e", "y">>, <<"s", "e", "c", "r", "e", "t">>,
     <<"p", "a", "s", "s", "w", "o", "r", "d">>, <<"t", "o", "k", "e", "n">>,
     <<"k", "e", "y">>}

DetailsCaseSensitive(details) ==
    {<<p[1], IF p[1] \in SensitiveKeys THEN Str(<<Marker>>)
             ELSE IF isinstance(p[2], "str") THEN Str(_sanitize_error_message(p[2].chars))
             ELSE p[2]>> : p \in details}
\* _sanitize_error_details, of details that are a dict with keys that are
\* strs: a set of <<key, value>>, a key a sequence of characters, a value a
\* str (a message) or a value of another type
_sanitize_error_details(details) ==
    {<<p[1], IF lower(p[1]) \in SensitiveKeys THEN Str(<<Marker>>)
             ELSE IF isinstance(p[2], "str") THEN Str(_sanitize_error_message(p[2].chars))
             ELSE p[2]>> : p \in details}

\* int(time.time() * 1000) at the clock reading t
Millis(t) == (t * MillisPerSecond) \div TicksPerSec

\* the error response create_error_response builds from a message and details
\* already sanitized; the details are left out when there are none
ErrorResponse(error_type, message, details, t) ==
    [success |-> FALSE,
     error |-> IF details = {}
               THEN [type |-> error_type, message |-> message, timestamp |-> Millis(t)]
               ELSE [type |-> error_type, message |-> message, timestamp |-> Millis(t),
                     details |-> details]]

\* create_error_response(error_type, message, details) at the clock reading t
create_error_response(error_type, message, details, t) ==
    ErrorResponse(error_type, _sanitize_error_message(message),
                  _sanitize_error_details(details), t)

\* create_success_response(data) at the clock reading t
create_success_response(data, t) ==
    [success |-> TRUE, data |-> data, timestamp |-> Millis(t)]

\* "API rate limit exceeded. Please try again later."
RateLimitMessage ==
    <<Alnum(3), Blank, Alnum(4), Blank, Alnum(5), Blank, Alnum(8), Punct, Blank,
      Alnum(6), Blank, Alnum(3), Blank, Alnum(5), Blank, Alnum(5), Punct>>

\* ... as create_error_response passes it on
RateLimitText == _sanitize_error_message(RateLimitMessage)

\* create_error_response("rate_limit_exceeded", "API rate limit exceeded.
\* Please try again later.", details={"weight": weight}) at the clock reading
\* t
RateLimitError(weight, t) ==
    ErrorResponse("rate_limit_exceeded", RateLimitText,
                  _sanitize_error_details({<<<<"w", "e", "i", "g", "h", "t">>, Value("int", weight)>>}), t)

\* a call the wrapper makes, with the weight it passes (0 where none is passed)
Event(op, arg) == [op |-> op, arg |-> arg]

\* how often the wrapper made the calls named in ops
Count(trace, ops) == Cardinality({i \in DOMAIN trace : trace[i].op \in ops})

\* the calls up to the limiter's answer: the cost function when the decorator
\* was given one, then try_consume(weight) or can_proceed()
Consulted(lim, spec, weight) ==
    (IF spec.kind = "callable" THEN <<Event("cost", 0)>> ELSE <<>>)
      \o (IF lim = "try_consume" THEN <<Event("try_consume", weight)>>
          ELSE <<Event("can_proceed", 0)>>)

\* what became of the cost: "none" when no cost function was called, else
\* "return", or "raise" / "not_a_number" when the cost function, or int() of
\* what it returned, raised
CostOutcome(spec, costres) ==
    IF spec.kind = "callable" THEN costres.kind ELSE "none"

AdmitRetries(lim, m, spec, costres, answer, t1, t2) ==
    LET weight == Weight(spec, costres)
        r == multi_try_consume(m, weight * CostDen, t1, t2)
        again == multi_try_consume(r.limiter, weight * CostDen, t2, t2)
        retry == lim = "try_consume" /\ ~r.ok
    IN  [limiter |-> IF lim # "try_consume" THEN m
                     ELSE IF r.ok THEN r.limiter ELSE again.limiter,
         weight |-> weight,
         allowed |-> IF lim = "try_consume" THEN r.ok \/ again.ok ELSE answer,
         cost |-> CostOutcome(spec, costres),
         trace |-> Consulted(lim, spec, weight)
                     \o (IF retry THEN <<Event("try_consume", weight)>> ELSE <<>>),
         at |-> t2]
AdmitGivesBack(lim, m, spec, costres, answer, t1, t2) ==
    LET weight == Weight(spec, costres)
        r == multi_try_consume(m, weight * CostDen, t1, t2)
    IN  [limiter |-> IF lim = "try_consume" /\ r.ok
                     THEN [second |-> refund(r.limiter.second, weight * CostDen),
                           minute |-> refund(r.limiter.minute, weight * CostDen)]
                     ELSE IF lim = "try_consume" THEN r.limiter ELSE m,
         weight |-> weight,
         allowed |-> IF lim = "try_consume" THEN r.ok ELSE answer,
         cost |-> CostOutcome(spec, costres),
         trace |-> Consulted(lim, spec, weight),
         at |-> t2]
\* wrapper, up to the limiter's answer ("Determine weight cost", "Support
\* both old and new limiter interfaces"): one call of a function decorated
\* with rate_limited(limiter, cost=spec).  costres is what the cost function
\* does with the call's arguments, answer what can_proceed() answers; t1 and
\* t2 are the clock readings of the limiter's two buckets.  The outcome names
\* the limiter after the consultation, the weight, what became of the cost,
\* and the calls the wrapper has made, in their order.
admit(lim, m, spec, costres, answer, t1, t2) ==
    LET weight == Weight(spec, costres)
        r == multi_try_consume(m, weight * CostDen, t1, t2)
    IN  [limiter |-> IF lim = "try_consume" THEN r.limiter ELSE m,
         weight |-> weight,
         allowed |-> IF lim = "try_consume" THEN r.ok ELSE answer,
         cost |-> CostOutcome(spec, costres),
         trace |-> Consulted(lim, spec, weight),
         at |-> t2]

RespondRunsAnyway(adm, func) ==
    IF ~adm.allowed
    THEN [trace |-> adm.trace \o <<Event("func", 0)>>,
          result |-> [kind |-> "return", value |-> RateLimitError(adm.weight, adm.at)]]
    ELSE [trace |-> adm.trace \o <<Event("func", 0)>>, result |-> func]
\* wrapper, from "if not allowed" on: the rate_limit_exceeded envelope, or
\* the call of the wrapped function, whose return value or exception is the
\* wrapper's.  func is what the wrapped function does when invoked.
respond(adm, func) ==
    IF ~adm.allowed
    THEN [trace |-> adm.trace,
          result |-> [kind |-> "return", value |-> RateLimitError(adm.weight, adm.at)]]
    ELSE [trace |-> adm.trace \o <<Event("func", 0)>>, result |-> func]

\* ---- literal messages and results ----------------------------------------------
\* the words of a literal message, their lengths given, a blank between two
RECURSIVE Words(_)
Words(lens) ==
    IF lens = <<>> THEN <<>>
    ELSE IF Len(lens) = 1 THEN <<Alnum(lens[1])>>
    ELSE <<Alnum(lens[1]), Blank>> \o Words(Tail(lens))

\* a value returned
Ok(value) == [ok |-> TRUE, value |-> value]

\* an exception raised: its class, str(e) and, of a BinanceAPIException, its
\* code (0 otherwise) and its message attribute
Raise(class, str, code, message) ==
    [ok |-> FALSE, class |-> class, str |-> str, code |-> code, message |-> message]

ValueError(str) == Raise("ValueError", str, 0, str)

\* ---- validation ---------------------------------------------------------------
ValidateSymbolAnyStart(symbol) ==
    IF symbol.chars = <<>> \/ ~isinstance(symbol, "str")
    THEN ValueError(Words(<<6, 4, 2, 1, 3>>) \o <<Punct>> \o Words(<<5, 6>>))
    ELSE LET sym == strip(upper(symbol.chars))
             sanitized_symbol == SelectSeq(sym, isalnum)
         IN  IF Len(sym) < SymbolMin THEN ValueError(Words(<<6, 4, 2, 2, 5, 1, 10, 4>>))
             ELSE IF Len(sym) > SymbolMax THEN ValueError(Words(<<6, 4, 2, 4, 4, 2, 10, 4>>))
             ELSE IF Len(sanitized_symbol) < SymbolMin
                  THEN ValueError(Words(<<6, 4, 2, 2, 5, 1, 10, 4, 5, 8, 7, 10>>))
             ELSE IF \A i \in DOMAIN sanitized_symbol : sanitized_symbol[i] \in Digits
                  THEN ValueError(Words(<<6, 6, 5, 4, 1, 6, 2, 2, 6, 7>>))
             ELSE Ok(sanitized_symbol)
\* validate_symbol, of a str; the messages are
\* "Symbol must be a non-empty string", "Symbol must be at least 3 characters
\* long", "Symbol must be less than 20 characters long", "Symbol must be at
\* least 3 characters long after removing special characters" and "Symbol
\* cannot start with a number or be purely numeric"
validate_symbol(symbol) ==
    IF symbol.chars = <<>> \/ ~isinstance(symbol, "str")
    THEN ValueError(Words(<<6, 4, 2, 1, 3>>) \o <<Punct>> \o Words(<<5, 6>>))
    ELSE LET sym == strip(upper(symbol.chars))
             sanitized_symbol == SelectSeq(sym, isalnum)
         IN  IF Len(sym) < SymbolMin THEN ValueError(Words(<<6, 4, 2, 2, 5, 1, 10, 4>>))
             ELSE IF Len(sym) > SymbolMax THEN ValueError(Words(<<6, 4, 2, 4, 4, 2, 10, 4>>))
             ELSE IF Len(sanitized_symbol) < SymbolMin
                  THEN ValueError(Words(<<6, 4, 2, 2, 5, 1, 10, 4, 5, 8, 7, 10>>))
             ELSE IF sanitized_symbol[1] \in Digits
                       \/ \A i \in DOMAIN sanitized_symbol : sanitized_symbol[i] \in Digits
                  THEN ValueError(Words(<<6, 6, 5, 4, 1, 6, 2, 2, 6, 7>>))
             ELSE Ok(sanitized_symbol)

\* validate_and_get_order_side; the messages are
\* "Order side must be a non-empty string" and "Invalid order side. Must be
\* 'BUY' or 'SELL'."
validate_and_get_order_side(side) ==
    IF side.chars = <<>> \/ ~isinstance(side, "str")
    THEN ValueError(Words(<<5, 4, 4, 2, 1, 3>>) \o <<Punct>> \o Words(<<5, 6>>))
    ELSE IF strip(upper(side.chars)) \in {<<"B", "U", "Y">>, <<"S", "E", "L", "L">>}
    THEN Ok(strip(upper(side.chars)))
    ELSE ValueError(Words(<<7, 5, 4>>) \o <<Punct, Blank>> \o Words(<<4, 2>>)
                      \o <<Blank, Punct, Alnum(3), Punct, Blank, Alnum(2), Blank, Punct,
                           Alnum(4), Punct, Punct>>)

\* the order types validate_and_get_order_type knows
OrderTypes ==
    {<<"L", "I", "M", "I", "T">>, <<"M", "A", "R", "K", "E", "T">>,
     <<"S", "T", "O", "P", "_", "L", "O", "S", "S">>,
     <<"S", "T", "O", "P", "_", "L", "O", "S", "S", "_", "L", "I", "M", "I", "T">>,
     <<"T", "A", "K", "E", "_", "P", "R", "O", "F", "I", "T">>,
     <<"T", "A", "K", "E", "_", "P", "R", "O", "F", "I", "T", "_", "L", "I", "M", "I", "T">>,
     <<"L", "I", "M", "I", "T", "_", "M", "A", "K", "E", "R">>}

\* validate_and_get_order_type; the messages are "Order type must be a
\* non-empty string" and "Invalid order type. Must be one of: ..." (the list
\* of the types left out)
validate_and_get_order_type(order_type) ==
    IF order_type.chars = <<>> \/ ~isinstance(order_type, "str")
    THEN ValueError(Words(<<5, 4, 4, 2, 1, 3>>) \o <<Punct>> \o Words(<<5, 6>>))
    ELSE IF strip(upper(order_type.chars)) \in OrderTypes
    THEN Ok(strip(upper(order_type.chars)))
    ELSE ValueError(Words(<<7, 5, 4>>) \o <<Punct, Blank>> \o Words(<<4, 2, 3, 2>>)
                      \o <<Equals>>)

\* ---- the exchange client ------------------------------------------------------
\* What the exchange answers to a call: data, a BinanceAPIException (its str is
\* "APIError(code=<code>): <message>"), a BinanceRequestException (its str is
\* "BinanceRequestException: <message>") or another exception.
APIErrorHead == <<Alnum(8), Punct, Alnum(4), Equals, Punct, Alnum(4), Punct>>

APIError(code, message) ==
    Raise("BinanceAPIException", APIErrorHead \o <<Equals, Blank>> \o message, code, message)

RequestError(message) ==
    Raise("BinanceRequestException", <<Alnum(23), Equals, Blank>> \o message, 0, message)

Unexpected(message) == Raise("Exception", message, 0, message)

\* the exchange's messages: "Invalid symbol", and one that quotes a key of
\* RunMin + 8 characters
ExchangeTexts == {Words(<<7, 6>>), Words(<<3, RunMin + 8>>)}
ExchangeCodes == {0 - 1121}

ExchangeOutcomes ==
    {Ok("data")}
      \cup {APIError(code, m) : code \in ExchangeCodes, m \in ExchangeTexts}
      \cup {RequestError(m) : m \in ExchangeTexts}
      \cup {Unexpected(m) : m \in ExchangeTexts}

\* the exchange was not asked
Unasked == Ok("unasked")

\* the calls of a trace that go to the exchange client
ClientCalls == {"Client", "client.ping", "client.create_order", "client.get_all_orders"}

\* what get_binance_client can meet: a valid configuration and a reachable
\* exchange, an invalid configuration, a ping that fails
ClientOutcomes == {"ok", "invalid_config", "ping_fails"}

\* get_config: "Invalid Binance configuration: <errors>"
get_config(outcome) ==
    IF outcome = "invalid_config"
    THEN Raise("RuntimeError", Words(<<7, 7, 13>>) \o <<Equals, Blank>> \o Words(<<7, 3>>), 0, <<>>)
    ELSE Ok("config")

\* get_binance_client: the calls it makes, and the client or the RuntimeError
\* "Binance request error during client initialization: <str(e)>"
get_binance_client(outcome) ==
    IF ~get_config(outcome).ok
    THEN [trace |-> <<"get_config">>, out |-> get_config(outcome)]
    ELSE IF outcome = "ping_fails"
    THEN [trace |-> <<"get_config", "Client", "client.ping">>,
          out |-> Raise("RuntimeError",
                        Words(<<7, 7, 5, 6, 6, 14>>) \o <<Equals, Blank>>
                          \o RequestError(Words(<<7, 6>>)).str, 0, <<>>)]
    ELSE [trace |-> <<"get_config", "Client", "client.ping">>, out |-> Ok("client")]

\* ---- the tools ----------------------------------------------------------------
\* What a tool body did: the calls it made and the envelope it returned.
Done(trace, result) == [trace |-> trace, result |-> result]

\* create_order, the decorated body: client is what get_binance_client meets,
\* answer what the exchange answers to client.create_order
create_order(symbol, side, order_type, quantity, client, answer, t) ==
    LET tool_error(trace, e) ==
            Done(trace, create_error_response("tool_error",
                            Words(<<4, 9, 6>>) \o <<Equals, Blank>> \o e.str, {}, t))
        c == get_binance_client(client)
        normalized_symbol == validate_symbol(symbol)
        side_ == validate_and_get_order_side(side)
        order_type_ == validate_and_get_order_type(order_type)
        called == c.trace \o <<"client.create_order">>
    IN  IF ~c.out.ok THEN tool_error(c.trace, c.out)
        ELSE IF ~normalized_symbol.ok THEN tool_error(c.trace, normalized_symbol)
        ELSE IF ~side_.ok THEN tool_error(c.trace, side_)
        ELSE IF ~order_type_.ok THEN tool_error(c.trace, order_type_)
        ELSE IF quantity <= 0
        THEN Done(c.trace, create_error_response("validation_error",
                      Words(<<7, 8>>) \o <<Punct, Blank>> \o Words(<<4, 2, 7, 4, 4>>)
                        \o <<Punct>>, {}, t))
        ELSE IF answer.ok THEN Done(called, create_success_response(answer.value, t))
        ELSE IF answer.class \in {"BinanceAPIException", "BinanceRequestException"}
        THEN Done(called, create_error_response("binance_api_error",
                      Words(<<5, 8, 5>>) \o <<Equals, Blank>> \o answer.str, {}, t))
        ELSE tool_error(called, answer)

\* get_oders, the decorated body: answer is what the exchange answers to
\* client.get_all_orders
get_oders(symbol, client, answer, t) ==
    LET internal_error(trace, e) ==
            Done(trace, create_error_response("internal_error", e.str, {}, t))
        normalized_symbol == validate_symbol(symbol)
        c == get_binance_client(client)
        called == c.trace \o <<"client.get_all_orders">>
    IN  IF ~normalized_symbol.ok THEN internal_error(<<>>, normalized_symbol)
        ELSE IF ~c.out.ok THEN internal_error(c.trace, c.out)
        ELSE IF answer.ok
        THEN Done(called, create_success_response(
                      [symbol |-> normalized_symbol.value, orders |-> answer.value], t))
        ELSE IF answer.class = "BinanceAPIException"
        THEN Done(called, create_error_response("api_error",
                      Words(<<7, 3, 5>>) \o <<Equals, Blank>> \o answer.message,
                      {<<<<"c", "o", "d", "e">>, Value("int", answer.code)>>}, t))
        ELSE internal_error(called, answer)

\* the inputs the tools are called with: symbols "BTCUSDT", "btcusdt ", "BT"
\* and "123$%"; sides "BUY", "sell " and "HOLD"; order types "MARKET", "limit"
\* and "STOP"; quantities -1, 0 and 1; prices None, -1, 0 and 1
Symbols ==
    {Str(<<"B", "T", "C", "U", "S", "D", "T">>), Str(<<"b", "t", "c", "u", "s", "d", "t", " ">>),
     Str(<<"B", "T">>), Str(<<"1", "2", "3", "$", "%">>)}
Sides == {Str(<<"B", "U", "Y">>), Str(<<"s", "e", "l", "l", " ">>), Str(<<"H", "O", "L", "D">>)}
Types ==
    {Str(<<"M", "A", "R", "K", "E", "T">>), Str(<<"l", "i", "m", "i", "t">>),
     Str(<<"S", "T", "O", "P">>)}
Quantities == (0 - 1)..1
Prices == {Value("NoneType", 0)} \cup {Value("float", p) : p \in (0 - 1)..1}

\* the tools are decorated with rate_limited(binance_rate_limiter), no cost
NoCost == [kind |-> "none", value |-> 0]
NoCostResult == [kind |-> "raise", value |-> 0]

\* the calls of a trace
Calls(trace) == {trace[i] : i \in DOMAIN trace}

\* ---- the server's tools ------------------------------------------------------
\* the tools server.py registers
ToolNames ==
    {"get_ticker_price", "get_ticker", "get_available_assets", "get_balance", "get_orders",
     "get_position_info", "get_pnl", "create_order"}

\* what a call does: it returns a value or raises an exception
Returned(value) == [kind |-> "return", value |-> value]
Raised(e) == [kind |-> "raise", value |-> e]

\* a value that is no mapping, and the test for one that has .get
None == [type |-> "NoneType"]
HasGet(value) == "success" \in DOMAIN value

\* "'NoneType' object has no attribute 'get'"
AttributeError ==
    Raise("AttributeError",
          <<Punct, Alnum(8), Punct, Blank>> \o Words(<<6, 3, 2, 9>>)
            \o <<Blank, Punct, Alnum(3), Punct>>, 0, <<>>)

\* the import in the body of a tool: tools/get_orders.py defines get_oders
\* and no get_orders, so "cannot import name 'get_orders' from
\* 'binance_mcp_server.tools.get_orders'" is all the import of get_orders does;
\* of the other tools the module is found, or "No module named
\* 'binance_mcp_server.tools.<name>'"
ModulePath ==
    <<Punct, Alnum(7), Under, Alnum(3), Under, Alnum(6), Punct, Alnum(5), Punct, Alnum(3),
      Under, Alnum(6), Punct>>

Import(name, found) ==
    IF name = "get_orders"
    THEN Raise("ImportError",
               Words(<<6, 6, 4>>) \o <<Blank, Punct, Alnum(3), Under, Alnum(6), Punct, Blank,
                                       Alnum(4), Blank>> \o ModulePath, 0, <<>>)
    ELSE IF ~found
    THEN Raise("ModuleNotFoundError", Words(<<2, 6, 5>>) \o <<Blank>> \o ModulePath, 0, <<>>)
    ELSE Ok("module")

\* what the implementation of a tool does when the server calls it at the
\* clock reading t: it returns a success or an error envelope, returns no
\* mapping, or raises
InnerOutcomes(t) ==
    {Returned(create_success_response("data", t)), Returned(None)}
      \cup {Returned(create_error_response(type, m, {}, t)) :
               type \in {"validation_error", "binance_api_error"}, m \in ExchangeTexts}
      \cup {Raised(Unexpected(m)) : m \in ExchangeTexts}

ServerToolNoCatch(imported, inner) ==
    IF ~imported.ok THEN Raised(imported)
    ELSE IF inner.kind = "raise" THEN inner
    ELSE IF ~HasGet(inner.value) THEN Raised(AttributeError)
    ELSE inner
\* the body of a tool of server.py: the import, the call of the
\* implementation, result.get("success"), and the except clause with its
\* envelope "Tool execution failed: <str(e)>"
server_tool(imported, inner) ==
    LET fallback(e) ==
            Returned([success |-> FALSE,
                      error |-> [type |-> "tool_error",
                                 message |-> Words(<<4, 9, 6>>) \o <<Equals, Blank>> \o e.str]])
    IN  IF ~imported.ok THEN fallback(imported)
        ELSE IF inner.kind = "raise" THEN fallback(inner.value)
        ELSE IF ~HasGet(inner.value) THEN fallback(AttributeError)
        ELSE inner

\* the sides and order types the server passes on: members of OrderSide and
\* of OrderType
SideMembers == {Member("OrderSide", <<"B", "U", "Y">>), Member("OrderSide", <<"S", "E", "L", "L">>)}
TypeMembers ==
    {Member("OrderType", <<"M", "A", "R", "K", "E", "T">>),
     Member("OrderType", <<"L", "I", "M", "I", "T">>)}

\* ---- the symbol cache --------------------------------------------------------------
\* _cache_ttl_seconds(): int() of BINANCE_SYMBOL_CACHE_TTL_SECONDS, "900" when
\* it is unset, and 900 when int() raises; env is the variable, None or a str
\* of the digits 1 to 3, with a minus sign before them or not, and other
\* characters.
_cache_ttl_seconds(env) ==
    LET digit == ("1" :> 1) @@ ("2" :> 2) @@ ("3" :> 3)
        RECURSIVE int(_)
        int(str) ==
            IF str = <<>> THEN 0
            ELSE 10 * int(SubSeq(str, 1, Len(str) - 1)) + digit[str[Len(str)]]
        digits(str) == str # <<>> /\ \A i \in DOMAIN str : str[i] \in DOMAIN digit
    IN  IF ~isinstance(env, "str") THEN 900
        ELSE IF digits(env.chars) THEN int(env.chars)
        ELSE IF env.chars # <<>> /\ env.chars[1] = "-" /\ digits(Tail(env.chars))
        THEN 0 - int(Tail(env.chars))
        ELSE 900

\* _ensure_symbol_cache with a client whose get_exchange_info answers info,
\* at clock reading t (in ticks) and with ttl seconds to live: the calls made,
\* the exception if one is raised, and the cache afterwards.
_ensure_symbol_cache(cache, info, t, ttl) ==
    IF t - cache.ts < ttl * TicksPerSec
    THEN [trace |-> <<>>, out |-> Ok("kept"), cache |-> cache]
    ELSE IF ~info.ok
    THEN [trace |-> <<"client.get_exchange_info">>, out |-> info, cache |-> cache]
    ELSE [trace |-> <<"client.get_exchange_info">>, out |-> Ok("listed"),
          cache |-> [ts |-> t,
                     symbols |-> {upper(s.symbol) :
                                    s \in {e \in info.value :
                                              e.status = "TRADING" \/ e.isSpotTradingAllowed}}]]

\* validate_symbol_exists that refreshes the snapshot when the symbol is missing
ValidateSymbolExistsRefreshing(symbol, flag, ttl, client, info, cache, t) ==
    LET sym == validate_symbol(symbol)
        enabled == lower(IF isinstance(flag, "str") THEN flag.chars
                         ELSE <<"f", "a", "l", "s", "e">>) = <<"t", "r", "u", "e">>
        c == get_binance_client(client)
        aged == _ensure_symbol_cache(cache, info, t, _cache_ttl_seconds(ttl))
        missed == aged.out.ok /\ sym.ok /\ sym.value \notin aged.cache.symbols
        ensured == IF missed
                   THEN _ensure_symbol_cache([aged.cache EXCEPT !.ts = 0], info, t, 0)
                   ELSE aged
    IN  IF ~sym.ok THEN [trace |-> <<>>, out |-> sym, cache |-> cache]
        ELSE IF ~enabled THEN [trace |-> <<>>, out |-> sym, cache |-> cache]
        ELSE IF ~c.out.ok THEN [trace |-> c.trace, out |-> c.out, cache |-> cache]
        ELSE IF ~ensured.out.ok
        THEN [trace |-> c.trace \o ensured.trace, out |-> ensured.out, cache |-> ensured.cache]
        ELSE IF sym.value \notin ensured.cache.symbols
        THEN [trace |-> c.trace \o ensured.trace, cache |-> ensured.cache,
              out |-> ValueError(Words(<<6>>) \o <<Blank, Punct, Alnum(Len(sym.value)), Punct, Blank>>
                                   \o Words(<<2, 3, 6, 2, 7>>))]
        ELSE [trace |-> c.trace \o ensured.trace, out |-> sym, cache |-> ensured.cache]

\* validate_symbol_exists(symbol) with BINANCE_MCP_VALIDATE_SYMBOL_EXISTS = flag
\* and BINANCE_SYMBOL_CACHE_TTL_SECONDS = ttl (None when unset), at clock
\* reading t: the calls made, what is returned or raised (ValueError "Symbol
\* '<sym>' is not listed on Binance"), and the cache afterwards.
validate_symbol_exists(symbol, flag, ttl, client, info, cache, t) ==
    LET sym == validate_symbol(symbol)
        enabled == lower(IF isinstance(flag, "str") THEN flag.chars
                         ELSE <<"f", "a", "l", "s", "e">>) = <<"t", "r", "u", "e">>
        c == get_binance_client(client)
        ensured == _ensure_symbol_cache(cache, info, t, _cache_ttl_seconds(ttl))
    IN  IF ~sym.ok THEN [trace |-> <<>>, out |-> sym, cache |-> cache]
        ELSE IF ~enabled THEN [trace |-> <<>>, out |-> sym, cache |-> cache]
        ELSE IF ~c.out.ok THEN [trace |-> c.trace, out |-> c.out, cache |-> cache]
        ELSE IF ~ensured.out.ok
        THEN [trace |-> c.trace \o ensured.trace, out |-> ensured.out, cache |-> ensured.cache]
        ELSE IF sym.value \notin ensured.cache.symbols
        THEN [trace |-> c.trace \o ensured.trace, cache |-> ensured.cache,
              out |-> ValueError(Words(<<6>>) \o <<Blank, Punct, Alnum(Len(sym.value)), Punct, Blank>>
                                   \o Words(<<2, 3, 6, 2, 7>>))]
        ELSE [trace |-> c.trace \o ensured.trace, out |-> sym, cache |-> ensured.cache]

\* ---- the standalone runner ------------------------------------------------------
\* validate_configuration(): True for a valid BinanceConfig; False for an
\* invalid one, an ImportError and any other Exception, each of them logged.
validate_configuration(config) == config = "valid"

\* main() with exit code 1 for a configuration that fails, as its docstring has it
MainExitsOne(args, config) ==
    IF args.transport \notin {"stdio", "streamable-http", "sse"}
    THEN [pc |-> "exited", config |-> "unread", run |-> <<>>, exit |-> <<2>>]
    ELSE IF ~validate_configuration(config)
    THEN [pc |-> "exited", config |-> config, run |-> <<>>, exit |-> <<1>>]
    ELSE [pc |-> "mcp.run", config |-> config, exit |-> <<>>,
          run |-> IF args.transport = "stdio" THEN <<"stdio">>
                  ELSE <<args.transport, args.port, args.host>>]

\* main() up to its call of mcp.run, or to the exit before it: parse_args
\* leaves with code 2 on a transport outside the choices, a configuration that
\* fails with sys.exit(84); run is the call of mcp.run, once made.
main(args, config) ==
    IF args.transport \notin {"stdio", "streamable-http", "sse"}
    THEN [pc |-> "exited", config |-> "unread", run |-> <<>>, exit |-> <<2>>]
    ELSE IF ~validate_configuration(config)
    THEN [pc |-> "exited", config |-> config, run |-> <<>>, exit |-> <<84>>]
    ELSE [pc |-> "mcp.run", config |-> config, exit |-> <<>>,
          run |-> IF args.transport = "stdio" THEN <<"stdio">>
                  ELSE <<args.transport, args.port, args.host>>]

\* The exit of main() once mcp.run has ended: sys.exit(0) on KeyboardInterrupt,
\* sys.exit(84) on ImportError, OSError and any other Exception; when mcp.run
\* returns, main returns and the interpreter leaves with 0.
main_after_run(outcome) ==
    IF outcome \in {"return", "KeyboardInterrupt"} THEN 0 ELSE 84

\* ---- weights ------------------------------------------------------------------
DepthWeightOfLimit(limit) ==
    IF limit.kind # "number" THEN 5
    ELSE IF limit.value <= 50 * CostDen THEN 2
    ELSE IF limit.value <= 100 * CostDen THEN 5
    ELSE IF limit.value <= 500 * CostDen THEN 10
    ELSE IF limit.value <= 1000 * CostDen THEN 20
    ELSE 50
\* estimate_weight_for_depth: limit is None, a value int() rejects, or a
\* number, given in units of 1/CostDen
estimate_weight_for_depth(limit) ==
    IF limit.kind # "number" THEN 5
    ELSE LET l == PyInt(limit.value)
         IN  IF l <= 50 THEN 2
             ELSE IF l <= 100 THEN 5
             ELSE IF l <= 500 THEN 10
             ELSE IF l <= 1000 THEN 20
             ELSE 50

\* the limits estimate_weight_for_depth is called with: None, "many", and the
\* numbers within DepthSpread / CostDen of 0, 50, 100, 500, 1000 and 5000
DepthLimits ==
    {[kind |-> "none", value |-> 0], [kind |-> "not_a_number", value |-> 0]}
      \cup {[kind |-> "number", value |-> at * CostDen + d] :
               at \in {0, 50, 100, 500, 1000, 5000}, d \in (0 - DepthSpread)..DepthSpread}

\* the limiters the model is run with: the one of
\* test_multiwindow_rate_limiter_basic and one built as the module-level
\* limiters are by default, per_second = per_minute
Configs ==
    {[per_minute |-> PerMinute, per_second |-> PerSecond],
     [per_minute |-> EqualLimit, per_second |-> EqualLimit]}

\* ---- threads --------------------------------------------------------------
\* the threads that call into one limiter
Threads == 1..NumThreads

\* a thread that is in no call: pc is the source line the thread is to execute
\* next, c the cost of its call, t its clock reading, v the value it has
\* computed from what it read; ret is what its last call returned and by the
\* window that denied it.  blocked notes, of a call on the multi-window
\* limiter, that while it held tokens of the second window another call was
\* denied for want of them.
Idle ==
    [pc |-> "idle", op |-> "none", c |-> 0, t |-> 0, v |-> 0, ret |-> FALSE,
     by |-> "none", blocked |-> FALSE]

\* ---- state --------------------------------------------------------------
VARIABLES
    now,       \* the reading time.time() returns
    single,    \* a WeightedRateLimiter used on its own
    last,      \* the most recent call on `single` and what it returned
    admitted,  \* total weight admitted since its creation by the limiter in use,
               \* `single` or `multi`
    multi,     \* a MultiWindowRateLimiter
    mlast,     \* the most recent call on `multi` and what it returned
    scen,      \* how far the calls on `multi` have followed the scenario of
               \* test_multiwindow_rate_limiter_basic, and when it began
    call,      \* the most recent call of a rate-limited function: its inputs
               \* and its outcome
    calls,     \* how often wrapped functions have been invoked (calls["count"]
               \* of test_rate_limited_decorator_cost)
    race,      \* calls in flight on one limiter, one per thread: where each
               \* is in its code and its local variables, the number of calls
               \* begun and the weight refunded so far
    tool,      \* the most recent call of a tool: its arguments, what its
               \* collaborators did, the calls it made and what it returned
    text,      \* the most recent message sanitized, and the outcome
    _SYMBOL_CACHE,  \* the snapshot of listed symbols and the time it was taken
    named      \* binance_futures_rate_limiter and binance_sapi_rate_limiter;
               \* binance_spot_rate_limiter, which is binance_rate_limiter,
               \* is `multi`

vars ==
    <<now, single, last, admitted, multi, mlast, scen, call, calls, race, tool, text,
      _SYMBOL_CACHE, named>>

InitWith(cfg) ==
    /\ now = 0
    /\ single = WeightedRateLimiter(SingleCapacity, SingleRefillPerMinute, 0)
    /\ last = [op |-> "new", cost |-> 0, ret |-> FALSE]
    /\ admitted = 0
    /\ multi = MultiWindowRateLimiter(cfg.per_minute, cfg.per_second, 0)
    /\ mlast = [op |-> "new", cost |-> 0, ret |-> FALSE, denied_by |-> "none",
                behind |-> FALSE]
    /\ scen = [step |-> 0, t0 |-> 0]
    /\ call = [op |-> "new"]
    /\ calls = 0
    /\ race = [loc |-> [th \in Threads |-> Idle], begun |-> 0, refunded |-> 0]
    /\ tool = [op |-> "new"]
    /\ text = [op |-> "new"]
    /\ _SYMBOL_CACHE = [ts |-> 0, symbols |-> {}]
    /\ named = [futures |-> MultiWindowRateLimiter(cfg.per_minute, cfg.per_second, 0),
                sapi |-> MultiWindowRateLimiter(cfg.per_minute, cfg.per_second, 0)]

\* the limiters as constructed, the multi-window one with either configuration
Init == \E cfg \in Configs : InitWith(cfg)

\* the same with the limiter of the tests alone
InitSingle == InitWith([per_minute |-> PerMinute, per_second |-> PerSecond])

\* the wall clock moves forward ...
ClockAdvance ==
    /\ now < MaxTime
    /\ now' = now + 1
    /\ UNCHANGED <<single, last, admitted, multi, mlast, scen, call, calls, race, tool, text, _SYMBOL_CACHE, named>>

\* ... and can be stepped back (time.time() is not monotonic)
ClockStepBack ==
    /\ now > 0
    /\ now' = now - 1
    /\ UNCHANGED <<single, last, admitted, multi, mlast, scen, call, calls, race, tool, text, _SYMBOL_CACHE, named>>

\* single.try_consume(cost)
TryConsume(cost) ==
    \E res \in {try_consume(single, cost, now)} :
        /\ single' = res.bucket
        /\ last' = [op |-> "try_consume", cost |-> cost, ret |-> res.ok]
        /\ UNCHANGED <<now, multi, mlast, scen, call, calls, race, tool, text, _SYMBOL_CACHE, named>>

\* single.refund(cost); undoes tells that the call before it on `single` was
\* try_consume with the same cost and returned True
Refund(cost) ==
    /\ single' = refund(single, cost)
    /\ last' = [op |-> "refund", cost |-> cost, ret |-> FALSE,
                undoes |-> last.op = "try_consume" /\ last.ret /\ last.cost = cost]
    /\ UNCHANGED <<now, multi, mlast, scen, call, calls, race, tool, text, _SYMBOL_CACHE, named>>

\* multi.try_consume(cost); the clock moves on by d ticks between the clock
\* reading of the second bucket and that of the minute bucket.  `behind`
\* remembers that this call or an earlier one read the clock before the
\* reading the bucket had last refilled at.
MultiTryConsume(cost, d) ==
    \E res \in {multi_try_consume(multi, cost, now, now + d)} :
        /\ now + d <= MaxTime
        /\ res.denied_by = "second" => d = 0
        /\ multi' = res.limiter
        /\ mlast' = [op |-> "try_consume", cost |-> cost, ret |-> res.ok,
                     denied_by |-> res.denied_by,
                     behind |-> \/ mlast.behind
                                \/ now < multi.second.last_refill
                                \/ now + d < multi.minute.last_refill]
        /\ now' = now + d
        /\ UNCHANGED <<single, last, call, calls, race, tool, text, _SYMBOL_CACHE, named>>

\* one call of a function decorated with rate_limited(limiter, cost=spec);
\* the limiter is `multi` or an object with can_proceed alone.  `call` keeps
\* what the wrapped function does when it is invoked (func; not drawn when the
\* call is denied) and the outcome; every invocation of the wrapped function
\* counts in `calls`.
Dispatch(lim, spec, costres, answer, d) ==
    /\ calls < MaxCalls
    /\ now + d <= MaxTime
    /\ \E adm \in {admit(lim, multi, spec, costres, answer, now, now + d)} :
           /\ adm.limiter.minute = multi.minute => d = 0
           /\ \E func \in IF adm.allowed THEN FuncResults ELSE {NotInvoked} :
                 \E out \in {respond(adm, func)} :
                    /\ call' = [op |-> "call", func |-> func, weight |-> adm.weight,
                                allowed |-> adm.allowed, cost |-> adm.cost,
                                trace |-> out.trace, result |-> out.result]
                    /\ calls' = calls + Count(out.trace, {"func"})
           /\ multi' = adm.limiter
    /\ now' = now + d
    /\ UNCHANGED <<single, last, admitted, mlast, scen, race, tool, text, _SYMBOL_CACHE, named>>

\* a bucket used through try_consume and refund
NextBucket ==
    \/ ClockAdvance
    \/ ClockStepBack
    \/ \E cost \in Costs : TryConsume(cost) /\ UNCHANGED admitted
    \/ \E cost \in Costs : Refund(cost) /\ UNCHANGED admitted

SpecBucket == InitSingle /\ [][NextBucket]_vars

\* costs of the requests made of a fresh bucket: 1, ..., capacity
FreshCosts == {k * CostDen : k \in 1..SingleCapacity}

\* a fresh bucket used through try_consume alone; `admitted` adds up the
\* weight of the admitted requests
NextFresh ==
    \/ ClockAdvance
    \/ ClockStepBack
    \/ \E cost \in FreshCosts :
          /\ TryConsume(cost)
          /\ admitted' = admitted + (IF last'.ret THEN Coerce(cost) ELSE 0)

SpecFresh == InitSingle /\ [][NextFresh]_vars

\* costs of the requests made of the multi-window limiter: up to one more
\* than the per-second capacity
MultiCosts == {c \in Costs : c <= (Max(PerSecond, EqualLimit) + 1) * CostDen}

\* the limiter is the one the scenario is about
ScenarioLimiter(m) ==
    m = [MultiWindowRateLimiter(PerMinute, PerSecond, 0) EXCEPT
           !.second.tokens = m.second.tokens,
           !.second.last_refill = m.second.last_refill,
           !.minute.tokens = m.minute.tokens,
           !.minute.last_refill = m.minute.last_refill]

\* The scenario of test_multiwindow_rate_limiter_basic, followed call by
\* call: weight 1, weight 1, weight 1 within a second of the first, weight 2
\* a second or more after the third, weight 3.  step is the number of calls
\* of the scenario made so far, -1 once the calls have left it; t0 is the
\* clock reading of its first call.  Time is what the limiter has seen of it:
\* a call made with the clock behind an earlier call's reading leaves the
\* scenario.
Follow(sc, m, cost, t) ==
    LET forward == t >= m.second.last_refill /\ t >= m.minute.last_refill
        off == [step |-> 0 - 1, t0 |-> 0]
    IN  IF ~forward THEN off
        ELSE IF sc.step = 0 /\ cost = 1 * CostDen /\ ScenarioLimiter(m)
             THEN [step |-> 1, t0 |-> t]
        ELSE IF sc.step = 1 /\ cost = 1 * CostDen THEN [sc EXCEPT !.step = 2]
        ELSE IF sc.step = 2 /\ cost = 1 * CostDen /\ t - sc.t0 < TicksPerSec
             THEN [sc EXCEPT !.step = 3]
        ELSE IF sc.step = 3 /\ cost = 2 * CostDen /\ t - m.second.last_refill >= TicksPerSec
             THEN [sc EXCEPT !.step = 4]
        ELSE IF sc.step = 4 /\ cost = 3 * CostDen THEN [sc EXCEPT !.step = 5]
        ELSE off

\* a multi-window limiter used through try_consume
NextMulti ==
    \/ ClockAdvance
    \/ ClockStepBack
    \/ \E cost \in MultiCosts, d \in {0, 1} :
          /\ MultiTryConsume(cost, d)
          /\ scen' = Follow(scen, multi, cost, now)
          /\ UNCHANGED admitted

SpecMulti == Init /\ [][NextMulti]_vars

\* A multi-window limiter built with any limits, those below 1 included, and
\* used through try_consume from its creation on; `admitted` adds up the
\* weight of the admitted requests.  The limits are (per_minute, per_second)
\* = (6, 2), (2, 2), (1, 2), (0, -1) and (-1, 0).
SpecMultiFresh ==
    /\ \E cfg \in Configs \cup {[per_minute |-> 1, per_second |-> EqualLimit],
                                 [per_minute |-> 0, per_second |-> 0 - 1],
                                 [per_minute |-> 0 - 1, per_second |-> 0]} : InitWith(cfg)
    /\ [][\/ ClockAdvance
          \/ ClockStepBack
          \/ \E cost \in MultiCosts, d \in {0, 1} :
                /\ MultiTryConsume(cost, d)
                /\ admitted' = admitted + (IF mlast'.ret THEN Coerce(cost) ELSE 0)
                /\ UNCHANGED scen]_vars

\* functions decorated with rate_limited, called one call at a time
\* (a cost function is called only when the decorator was given one; only
\* can_proceed answers as it likes, and reads no clock)
NextDispatch ==
    \/ ClockAdvance
    \/ \E lim \in LimiterKinds, spec \in CostSpecs :
          \E costres \in IF spec.kind = "callable" THEN CostResults
                          ELSE {[kind |-> "raise", value |-> 0]},
             answer \in IF lim = "can_proceed" THEN BOOLEAN ELSE {FALSE},
             d \in IF lim = "can_proceed" THEN {0} ELSE {0, 1} :
             Dispatch(lim, spec, costres, answer, d)

SpecDispatch == InitSingle /\ [][NextDispatch]_vars

\* ---- the tools, called directly ------------------------------------------------
\* One call of tools.create_order.create_order: the wrapper of rate_limited
\* consults binance_rate_limiter, and the body runs when the call is admitted;
\* the exchange answers when the body asks it.
\* The price is read by nothing but the call of client.create_order, which
\* is given it as it came: it is None, -1, 0 or 1 in the calls that get there.
CreateOrder(symbol, side, order_type, quantity, client) ==
    /\ \E adm \in {admit("try_consume", multi, NoCost, NoCostResult, FALSE, now, now)} :
          \E unasked \in {create_order(symbol, side, order_type, quantity, client, Unasked, now)} :
          \E asked \in {adm.allowed /\ "client.create_order" \in Calls(unasked.trace)} :
          \E answer \in IF asked THEN ExchangeOutcomes ELSE {Unasked} :
          \E price \in IF asked THEN Prices ELSE {Value("NoneType", 0)} :
             \E body \in {IF answer = Unasked THEN unasked
                          ELSE create_order(symbol, side, order_type, quantity, client,
                                            answer, now)} :
                \E out \in {respond(adm, [kind |-> "return", value |-> body.result])} :
                   /\ tool' = [op |-> "create_order",
                               args |-> [symbol |-> symbol, side |-> side,
                                         order_type |-> order_type, quantity |-> quantity,
                                         price |-> price],
                               client |-> client, answer |-> answer,
                               allowed |-> adm.allowed,
                               trace |-> IF adm.allowed THEN body.trace ELSE <<>>,
                               result |-> out.result.value]
                   /\ multi' = adm.limiter
    /\ UNCHANGED <<now, single, last, admitted, mlast, scen, call, calls, race, text, _SYMBOL_CACHE, named>>

\* One call of tools.get_orders.get_oders.
GetOders(symbol, client) ==
    /\ \E adm \in {admit("try_consume", multi, NoCost, NoCostResult, FALSE, now, now)} :
          \E unasked \in {get_oders(symbol, client, Unasked, now)} :
          \E answer \in
                IF adm.allowed /\ "client.get_all_orders" \in Calls(unasked.trace)
                THEN ExchangeOutcomes ELSE {Unasked} :
             \E body \in {IF answer = Unasked THEN unasked
                          ELSE get_oders(symbol, client, answer, now)} :
                \E out \in {respond(adm, [kind |-> "return", value |-> body.result])} :
                   /\ tool' = [op |-> "get_oders",
                               args |-> [symbol |-> symbol],
                               client |-> client, answer |-> answer,
                               allowed |-> adm.allowed,
                               trace |-> IF adm.allowed THEN body.trace ELSE <<>>,
                               result |-> out.result.value]
                   /\ multi' = adm.limiter
    /\ UNCHANGED <<now, single, last, admitted, mlast, scen, call, calls, race, text, _SYMBOL_CACHE, named>>

NextTools ==
    \/ \E symbol \in Symbols, side \in Sides, order_type \in Types,
          quantity \in Quantities, client \in ClientOutcomes :
          CreateOrder(symbol, side, order_type, quantity, client)
    \/ \E symbol \in Symbols, client \in ClientOutcomes : GetOders(symbol, client)

SpecTools == InitSingle /\ [][NextTools]_vars

\* ---- a caller that retries -------------------------------------------------------
\* how long the retries are followed: a minute and MaxTime ticks
Horizon == Scale + MaxTime

\* A caller whose multi.try_consume(cost), cost within both capacities, was
\* denied waits d ticks and calls it again with the same cost; the clock
\* moves on by e ticks between the two windows' readings.
RetryTryConsume(d, e) ==
    /\ mlast.op = "try_consume"
    /\ ~mlast.ret
    /\ Coerce(mlast.cost) <= multi.second.capacity
    /\ Coerce(mlast.cost) <= multi.minute.capacity
    /\ now + d + e <= Horizon
    /\ \E res \in {multi_try_consume(multi, mlast.cost, now + d, now + d + e)} :
          /\ res.denied_by = "second" => e = 0
          /\ multi' = res.limiter
          /\ mlast' = [mlast EXCEPT !.ret = res.ok, !.denied_by = res.denied_by]
    /\ now' = now + d + e
    /\ UNCHANGED <<single, last, admitted, scen, call, calls, race, tool, text,
                   _SYMBOL_CACHE, named>>

\* A limiter is called with any costs until a call whose cost is within both
\* capacities is denied; from then on that caller alone calls, with that
\* cost, at once or a tick later, and does not stop waiting: a retry one
\* tick later is made for as long as it can be.
SpecRetry ==
    /\ \E cfg \in Configs \cup {[per_minute |-> 1, per_second |-> EqualLimit],
                                 [per_minute |-> 0, per_second |-> 0 - 1]} : InitWith(cfg)
    /\ [][\/ \E cost \in MultiCosts :
                /\ ~(/\ mlast.op = "try_consume"
                     /\ ~mlast.ret
                     /\ Coerce(mlast.cost) <= multi.second.capacity
                     /\ Coerce(mlast.cost) <= multi.minute.capacity)
                /\ MultiTryConsume(cost, 0)
                /\ UNCHANGED <<admitted, scen>>
          \/ \E d \in {0, 1}, e \in {0, 1} : RetryTryConsume(d, e)]_vars
    /\ WF_vars(\E e \in {0, 1} : RetryTryConsume(1, e))

\* ---- the named limiters -----------------------------------------------------------
NamedOneBudget(name, cost) ==
    \E res \in {multi_try_consume(IF name = "spot" THEN multi ELSE named[name],
                                  cost, now, now)} :
        /\ IF name = "spot"
           THEN multi' = res.limiter /\ UNCHANGED named
           ELSE /\ named' = [futures |-> res.limiter, sapi |-> res.limiter]
                /\ UNCHANGED multi
        /\ mlast' = [op |-> "try_consume", on |-> name, cost |-> cost, ret |-> res.ok,
                     denied_by |-> res.denied_by, behind |-> mlast.behind]
        /\ UNCHANGED <<now, single, last, admitted, scen, call, calls, race, tool, text,
                       _SYMBOL_CACHE>>
\* try_consume(cost) on binance_spot_rate_limiter (`multi`, which
\* binance_rate_limiter names too), binance_futures_rate_limiter or
\* binance_sapi_rate_limiter
NamedTryConsume(name, cost) ==
    \E res \in {multi_try_consume(IF name = "spot" THEN multi ELSE named[name],
                                  cost, now, now)} :
        /\ IF name = "spot"
           THEN multi' = res.limiter /\ UNCHANGED named
           ELSE /\ named' = [named EXCEPT ![name] = res.limiter]
                /\ UNCHANGED multi
        /\ mlast' = [op |-> "try_consume", on |-> name, cost |-> cost, ret |-> res.ok,
                     denied_by |-> res.denied_by, behind |-> mlast.behind]
        /\ UNCHANGED <<now, single, last, admitted, scen, call, calls, race, tool, text,
                       _SYMBOL_CACHE>>

\* The three limiters of the module, built with equal limits, called directly
\* and, the spot limiter, through create_order and get_oders as well, within
\* one tick of the clock; the exchange, when asked, returns the data.
SpecNamed ==
    /\ InitWith([per_minute |-> EqualLimit, per_second |-> EqualLimit])
    /\ [][\/ ClockAdvance /\ now = 0
          \/ \E name \in {"spot", "futures", "sapi"} : NamedTryConsume(name, CostDen)
          \/ \E client \in {"ok", "ping_fails"} :
                /\ CreateOrder(Str(<<"B", "T", "C", "U", "S", "D", "T">>), Str(<<"B", "U", "Y">>),
                               Str(<<"M", "A", "R", "K", "E", "T">>), 1, client)
                /\ tool'.answer \in {Unasked, Ok("data")}
                /\ tool'.args.price = Value("NoneType", 0)
          \/ \E client \in {"ok", "ping_fails"} :
                /\ GetOders(Str(<<"B", "T", "C", "U", "S", "D", "T">>), client)
                /\ tool'.answer \in {Unasked, Ok("data")}]_vars

\* ---- the tools, called through the server ---------------------------------------
\* One call of a tool of server.py other than create_order and get_orders.
ServerTool(name, found, inner) ==
    /\ \E imported \in {Import(name, found)} :
          tool' = [op |-> "server", name |-> name,
                   inner |-> IF imported.ok THEN inner ELSE Raised(imported),
                   out |-> server_tool(imported, inner)]
    /\ UNCHANGED <<now, single, last, admitted, multi, mlast, scen, call, calls, race, text, _SYMBOL_CACHE, named>>

\* One call of the server's create_order: when the import succeeds, the
\* implementation runs as in CreateOrder.
ServerCreateOrder(symbol, side, order_type, quantity, client, found) ==
    /\ \E imported \in {Import("create_order", found)} :
          \E adm \in {admit("try_consume", multi, NoCost, NoCostResult, FALSE, now, now)} :
          \E unasked \in {create_order(symbol, side, order_type, quantity, client, Unasked, now)} :
          \E answer \in
                IF imported.ok /\ adm.allowed /\ "client.create_order" \in Calls(unasked.trace)
                THEN ExchangeOutcomes ELSE {Unasked} :
             \E body \in {IF answer = Unasked THEN unasked
                          ELSE create_order(symbol, side, order_type, quantity, client,
                                            answer, now)} :
                \E inner \in {respond(adm, Returned(body.result)).result} :
                   /\ tool' = [op |-> "server", name |-> "create_order",
                               inner |-> IF imported.ok THEN inner ELSE Raised(imported),
                               out |-> server_tool(imported, inner)]
                   /\ multi' = IF imported.ok THEN adm.limiter ELSE multi
    /\ UNCHANGED <<now, single, last, admitted, mlast, scen, call, calls, race, text, _SYMBOL_CACHE, named>>

\* One call of the server's get_orders(symbol, start_time, end_time), with
\* what get_binance_client would meet and what the exchange would answer.
\* The import raises; the call it would be followed by,
\* get_oders(symbol, start_time=..., end_time=...), raises "get_oders() got an
\* unexpected keyword argument 'start_time'", get_oders taking symbol alone.
ServerGetOrders(symbol, client, answer) ==
    /\ \E imported \in {Import("get_orders", TRUE)} :
       \E inner \in {IF ~imported.ok THEN Raised(imported)
                     ELSE Raised(Raise("TypeError",
                              <<Alnum(3), Under, Alnum(5), Punct, Punct, Blank>>
                                \o Words(<<3, 2, 10, 7, 8>>)
                                \o <<Blank, Punct, Alnum(5), Under, Alnum(4), Punct>>, 0, <<>>))} :
          tool' = [op |-> "server", name |-> "get_orders", symbol |-> symbol,
                   client |-> client, answer |-> answer,
                   inner |-> inner, out |-> server_tool(imported, inner)]
    /\ UNCHANGED <<now, single, last, admitted, multi, mlast, scen, call, calls, race, text, _SYMBOL_CACHE, named>>

NextServer ==
    \/ \E name \in ToolNames \ {"create_order", "get_orders"}, found \in BOOLEAN,
          inner \in InnerOutcomes(now) :
          ServerTool(name, found, inner)
    \/ \E symbol \in Symbols, client \in ClientOutcomes, answer \in ExchangeOutcomes :
          ServerGetOrders(symbol, client, answer)
    \/ \E symbol \in Symbols, side \in SideMembers, order_type \in TypeMembers,
          quantity \in Quantities, client \in ClientOutcomes, found \in BOOLEAN :
          ServerCreateOrder(symbol, side, order_type, quantity, client, found)

SpecServer == InitSingle /\ [][NextServer]_vars

\* ---- the symbol cache, used ---------------------------------------------------------
\* One call of validate_symbol_exists(symbol) with the two environment
\* variables as they are at the call; what get_binance_client meets and what
\* get_exchange_info answers are chosen when the call comes to them. The
\* exchange lists BTCUSDT as trading, as halted, in lower case with spot
\* trading allowed, or not at all.
ValidateSymbolExists(symbol, flag, ttl) ==
    LET t == Epoch * TicksPerSec + now
        BTCUSDT == <<"B", "T", "C", "U", "S", "D", "T">>
        trading == [symbol |-> BTCUSDT, status |-> "TRADING", isSpotTradingAllowed |-> TRUE]
        halted == [symbol |-> BTCUSDT, status |-> "BREAK", isSpotTradingAllowed |-> FALSE]
        spot == [symbol |-> lower(BTCUSDT), status |-> "BREAK", isSpotTradingAllowed |-> TRUE]
        Infos == {Ok({}), Ok({halted}), Ok({spot}), Ok({trading, halted}),
                  RequestError(Words(<<7, 6>>))}
    IN  \E unasked \in {validate_symbol_exists(symbol, flag, ttl, "ok", Ok({}), _SYMBOL_CACHE, t)} :
        \E client \in IF unasked.trace = <<>> THEN {"unasked"} ELSE ClientOutcomes :
        \E info \in IF client = "ok" /\ "client.get_exchange_info" \in Calls(unasked.trace)
                    THEN Infos ELSE {Ok({})} :
        \E r \in {IF client = "unasked" THEN unasked
                  ELSE validate_symbol_exists(symbol, flag, ttl, client, info, _SYMBOL_CACHE, t)} :
           /\ tool' = [op |-> "validate_symbol_exists", symbol |-> symbol, flag |-> flag,
                       ttl |-> ttl, client |-> client, at |-> t, before |-> _SYMBOL_CACHE,
                       trace |-> r.trace, out |-> r.out]
           /\ _SYMBOL_CACHE' = r.cache
           /\ UNCHANGED <<now, single, last, admitted, multi, mlast, scen, call, calls, race, text, named>>

NextCache ==
    \/ ClockAdvance
    \/ ClockStepBack
    \/ \E symbol \in Symbols \ {Str(<<"1", "2", "3", "$", "%">>)},
          flag \in {None, Str(<<"T", "R", "U", "E">>), Str(<<"t", "r", "u", "e", " ">>)},
          ttl \in {None, Str(<<"1">>), Str(<<"-", "1">>), Str(<<"x">>)} :
          ValidateSymbolExists(symbol, flag, ttl)

SpecCache == InitSingle /\ [][NextCache]_vars

\* ---- the standalone runner, started ----------------------------------------------
\* main() from its start to the call of mcp.run or to the exit before it
Main(args, config) ==
    /\ tool.op = "new"
    /\ tool' = [op |-> "main", args |-> args, outcome |-> "none"] @@ main(args, config)
    /\ UNCHANGED <<now, single, last, admitted, multi, mlast, scen, call, calls, race, text, _SYMBOL_CACHE, named>>

\* mcp.run ends, by returning or by raising, and main() with it
McpRun(outcome) ==
    /\ tool.op = "main"
    /\ tool.pc = "mcp.run"
    /\ tool' = [tool EXCEPT !.pc = "exited", !.outcome = outcome,
                            !.exit = <<main_after_run(outcome)>>]
    /\ UNCHANGED <<now, single, last, admitted, multi, mlast, scen, call, calls, race, text, _SYMBOL_CACHE, named>>

NextMain ==
    \/ \E transport \in {"stdio", "streamable-http", "sse", "websocket"},
          port \in {8000, 8080},
          log_level \in {"DEBUG", "INFO", "WARNING", "ERROR"},
          config \in {"valid", "invalid", "ImportError", "Exception"} :
          Main([transport |-> transport, port |-> port, host |-> "localhost",
                log_level |-> log_level], config)
    \/ \E outcome \in {"return", "KeyboardInterrupt", "ImportError",
                        "OSError: Address already in use", "OSError", "Exception"} :
          McpRun(outcome)

SpecMain == InitSingle /\ [][NextMain]_vars

\* ---- messages ---------------------------------------------------------------
\* the stretches a message is made of: runs of 1, RunMin - 1, RunMin and
\* RunMin + 8 letters and digits, the word "secret", and single characters
Stretches ==
    {Alnum(1), Alnum(RunMin - 1), Alnum(RunMin), Alnum(RunMin + 8), Secret, Under, Blank,
     Equals, Punct}

\* the messages of up to MaxSegs stretches
Messages == UNION {[1..n -> Stretches] : n \in 1..MaxSegs}

\* One call of create_error_response with the message.
CreateErrorResponse(message) ==
    /\ text' = [op |-> "create_error_response", message |-> message,
                result |-> create_error_response("tool_error", message, {}, now)]
    /\ UNCHANGED <<now, single, last, admitted, multi, mlast, scen, call, calls, race, tool, _SYMBOL_CACHE, named>>

NextSanitize == \E message \in Messages : CreateErrorResponse(message)

SpecSanitize == InitSingle /\ [][NextSanitize]_vars

\* ---- details -----------------------------------------------------------------
\* the details create_error_response is called with: dicts of up to MaxKeys
\* of the keys "Token", "API_KEY", "apiKey" and "code", a value an int or a
\* str of 8 or of RunMin + 8 letters and digits
DetailMaps ==
    LET keys == {<<"T", "o", "k", "e", "n">>, <<"A", "P", "I", "_", "K", "E", "Y">>,
                 <<"a", "p", "i", "K", "e", "y">>, <<"c", "o", "d", "e">>}
        values == {Value("int", 7), Str(<<Alnum(8)>>), Str(<<Alnum(RunMin + 8)>>)}
    IN  UNION {{{<<k, f[k]>> : k \in ks} : f \in [ks -> values]} :
                 ks \in {ks \in SUBSET keys : Cardinality(ks) \in 1..MaxKeys}}

\* of each of them, the dicts that differ from it at most in the values of
\* the keys that lower() takes into SensitiveKeys
Twins ==
    [details \in DetailMaps |->
       {other \in DetailMaps :
          /\ {p[1] : p \in details} = {p[1] : p \in other}
          /\ \A p \in details : lower(p[1]) \notin SensitiveKeys => p \in other}]

\* Two calls of create_error_response at one clock reading, with details and
\* with one of its twins.
CreateErrorResponseWith(details, other) ==
    /\ text' = [op |-> "details", details |-> details, other |-> other,
                result |-> create_error_response("tool_error", Words(<<7, 6>>), details, now),
                twin |-> create_error_response("tool_error", Words(<<7, 6>>), other, now)]
    /\ UNCHANGED <<now, single, last, admitted, multi, mlast, scen, call, calls, race, tool, _SYMBOL_CACHE, named>>

NextDetails ==
    \E details \in DetailMaps : \E other \in Twins[details] :
       CreateErrorResponseWith(details, other)

SpecDetails == InitSingle /\ [][NextDetails]_vars

\* ---- validation, called directly ------------------------------------------------
\* the values validate_symbol is called with: None, the strs of up to MaxSym
\* of the characters b, T, 1, $ and blank, and "BT", "btcusdt ", "123ABC",
\* "123$%", SymbolMax and SymbolMax + 1 letters, SymbolMax letters between
\* blanks, and SymbolMax - 3 letters with "$$$" before or "$$$$" after them
SymbolInputs ==
    LET letters(n) == [i \in 1..n |-> "A"]
    IN  {Value("NoneType", <<>>)}
          \cup {Str(chars) : chars \in UNION {[1..n -> {"b", "T", "1", "$", " "}] : n \in 0..MaxSym}}
          \cup {Str(<<"B", "T">>), Str(<<"b", "t", "c", "u", "s", "d", "t", " ">>),
                Str(<<"1", "2", "3", "A", "B", "C">>), Str(<<"1", "2", "3", "$", "%">>),
                Str(letters(SymbolMax)), Str(letters(SymbolMax + 1)),
                Str(<<" ">> \o letters(SymbolMax) \o <<" ">>),
                Str(<<"$", "$", "$">> \o letters(SymbolMax - 3)),
                Str(letters(SymbolMax - 3) \o <<"$", "$", "$", "$">>)}

\* One call of validate_symbol.
ValidateSymbol(symbol) ==
    /\ tool' = [op |-> "validate_symbol", symbol |-> symbol, out |-> validate_symbol(symbol)]
    /\ UNCHANGED <<now, single, last, admitted, multi, mlast, scen, call, calls, race, text, _SYMBOL_CACHE, named>>

NextValidate == \E symbol \in SymbolInputs : ValidateSymbol(symbol)

SpecValidate == InitSingle /\ [][NextValidate]_vars

\* ---- weights, called directly ---------------------------------------------------
\* One call of estimate_weight_for_depth.
EstimateWeightForDepth(limit) ==
    /\ tool' = [op |-> "estimate_weight_for_depth", limit |-> limit,
                weight |-> estimate_weight_for_depth(limit)]
    /\ UNCHANGED <<now, single, last, admitted, multi, mlast, scen, call, calls, race, text, _SYMBOL_CACHE, named>>

NextDepth == \E limit \in DepthLimits : EstimateWeightForDepth(limit)

SpecDepth == InitSingle /\ [][NextDepth]_vars

\* ---- one bucket, several threads --------------------------------------------
\* WeightedRateLimiter takes no lock: a thread can be preempted between any
\* two reads or writes of self.tokens and self.last_refill.  Each action below
\* is one read or one write of a shared attribute (or the clock reading) by
\* the thread th, at the source line its name gives.

\* costs of the calls the threads make: 1 and more than half the capacity
RaceCosts == {1 * CostDen, (SingleCapacity \div 2 + 1) * CostDen}

At(th, pc) == race.loc[th].pc = pc

\* th goes on to pc with its locals changed as in upd
Goto(th, upd) == race' = [race EXCEPT !.loc[th] = upd]

\* th enters try_consume(cost) or refund(cost)
RaceBegin(th, op, cost) ==
    /\ At(th, "idle")
    /\ race.begun < MaxBegun
    /\ race' = [race EXCEPT
                  !.loc[th] = [Idle EXCEPT !.op = op, !.c = Coerce(cost) * Scale,
                                           !.pc = IF op = "try_consume" THEN "169" ELSE "187r"],
                  !.begun = @ + 1]
    /\ UNCHANGED <<now, single, last, admitted, multi, mlast, scen, call, calls, tool, text, _SYMBOL_CACHE, named>>

\* _refill: now = time.time()
Race169(th) ==
    /\ At(th, "169")
    /\ Goto(th, [race.loc[th] EXCEPT !.t = now, !.pc = "170"])
    /\ UNCHANGED <<now, single, last, admitted, multi, mlast, scen, call, calls, tool, text, _SYMBOL_CACHE, named>>

\* _refill: elapsed = now - self.last_refill; if elapsed <= 0: return
Race170(th) ==
    /\ At(th, "170")
    /\ \E elapsed \in {race.loc[th].t - single.last_refill} :
          Goto(th, [race.loc[th] EXCEPT !.v = elapsed * single.refill_rate,
                                        !.pc = IF elapsed <= 0 THEN "179" ELSE "173r"])
    /\ UNCHANGED <<now, single, last, admitted, multi, mlast, scen, call, calls, tool, text, _SYMBOL_CACHE, named>>

\* _refill: min(self.capacity, self.tokens + tokens_to_add) is computed ...
Race173r(th) ==
    /\ At(th, "173r")
    /\ Goto(th, [race.loc[th] EXCEPT
                   !.v = Min(single.capacity * Scale, single.tokens + race.loc[th].v),
                   !.pc = "173w"])
    /\ UNCHANGED <<now, single, last, admitted, multi, mlast, scen, call, calls, tool, text, _SYMBOL_CACHE, named>>

\* ... and stored in self.tokens
Race173w(th) ==
    /\ At(th, "173w")
    /\ single' = [single EXCEPT !.tokens = race.loc[th].v]
    /\ Goto(th, [race.loc[th] EXCEPT !.pc = "174"])
    /\ UNCHANGED <<now, last, admitted, multi, mlast, scen, call, calls, tool, text, _SYMBOL_CACHE, named>>

\* _refill: self.last_refill = now
Race174(th) ==
    /\ At(th, "174")
    /\ single' = [single EXCEPT !.last_refill = race.loc[th].t]
    /\ Goto(th, [race.loc[th] EXCEPT !.pc = "179"])
    /\ UNCHANGED <<now, last, admitted, multi, mlast, scen, call, calls, tool, text, _SYMBOL_CACHE, named>>

\* try_consume: if self.tokens >= c, else return False
Race179(th) ==
    /\ At(th, "179")
    /\ Goto(th, IF single.tokens >= race.loc[th].c
                THEN [race.loc[th] EXCEPT !.pc = "180r"]
                ELSE [Idle EXCEPT !.op = "try_consume", !.c = race.loc[th].c])
    /\ UNCHANGED <<now, single, last, admitted, multi, mlast, scen, call, calls, tool, text, _SYMBOL_CACHE, named>>

\* try_consume: self.tokens - c is computed ...
Race180r(th) ==
    /\ At(th, "180r")
    /\ Goto(th, [race.loc[th] EXCEPT !.v = single.tokens - race.loc[th].c, !.pc = "180w"])
    /\ UNCHANGED <<now, single, last, admitted, multi, mlast, scen, call, calls, tool, text, _SYMBOL_CACHE, named>>

\* ... and stored in self.tokens; return True
Race180w(th) ==
    /\ At(th, "180w")
    /\ single' = [single EXCEPT !.tokens = race.loc[th].v]
    /\ admitted' = admitted + race.loc[th].c \div Scale
    /\ Goto(th, [Idle EXCEPT !.op = "try_consume", !.c = race.loc[th].c, !.ret = TRUE])
    /\ UNCHANGED <<now, last, multi, mlast, scen, call, calls, tool, text, _SYMBOL_CACHE, named>>

\* refund: min(self.capacity, self.tokens + c) is computed ...
Race187r(th) ==
    /\ At(th, "187r")
    /\ Goto(th, [race.loc[th] EXCEPT
                   !.v = Min(single.capacity * Scale, single.tokens + race.loc[th].c),
                   !.pc = "187w"])
    /\ UNCHANGED <<now, single, last, admitted, multi, mlast, scen, call, calls, tool, text, _SYMBOL_CACHE, named>>

\* ... and stored in self.tokens
Race187w(th) ==
    /\ At(th, "187w")
    /\ single' = [single EXCEPT !.tokens = race.loc[th].v]
    /\ race' = [race EXCEPT !.loc[th] = [Idle EXCEPT !.op = "refund", !.c = race.loc[th].c],
                            !.refunded = @ + race.loc[th].c \div Scale]
    /\ UNCHANGED <<now, last, admitted, multi, mlast, scen, call, calls, tool, text, _SYMBOL_CACHE, named>>

\* threads calling try_consume and refund on one bucket, unsynchronised, as
\* the clock moves on
NextRace ==
    \/ ClockAdvance
    \/ \E th \in Threads :
          \/ \E op \in {"try_consume", "refund"}, cost \in RaceCosts : RaceBegin(th, op, cost)
          \/ Race169(th)
          \/ Race170(th)
          \/ Race173r(th)
          \/ Race173w(th)
          \/ Race174(th)
          \/ Race179(th)
          \/ Race180r(th)
          \/ Race180w(th)
          \/ Race187r(th)
          \/ Race187w(th)

SpecRace == InitSingle /\ [][NextRace]_vars

\* ---- the multi-window limiter, several threads -------------------------------
\* MultiWindowRateLimiter.try_consume takes no lock either.  Here each call
\* on a bucket is one step (the interleavings inside a bucket are those of
\* SpecRace); a thread can be preempted between the calls on the two buckets
\* and before the refund.

MultiRaceCosts == {1 * CostDen, 2 * CostDen}

\* the threads whose calls hold tokens of the second window, the minute
\* window's answer outstanding or the refund not yet made
Holding == {th \in Threads : race.loc[th].pc \in {"601", "602"}}

\* th enters multi.try_consume(cost)
MultiRaceBegin(th, cost) ==
    /\ At(th, "idle")
    /\ race.begun < MaxBegun
    /\ race' = [race EXCEPT
                  !.loc[th] = [Idle EXCEPT !.op = "try_consume", !.c = cost, !.pc = "599"],
                  !.begun = @ + 1]
    /\ UNCHANGED <<now, single, last, admitted, multi, mlast, scen, call, calls, tool, text, _SYMBOL_CACHE, named>>

\* if not self.second.try_consume(cost): return False.  When the call is
\* denied, the calls that hold as many tokens as it lacks are marked, if the
\* minute window has the tokens the call asks for.
MultiRace599(th) ==
    /\ At(th, "599")
    /\ \E r \in {try_consume(multi.second, race.loc[th].c, now)} :
          /\ multi' = [multi EXCEPT !.second = r.bucket]
          /\ race' = [race EXCEPT !.loc =
                [o \in Threads |->
                   IF o = th
                   THEN IF r.ok THEN [race.loc[th] EXCEPT !.pc = "601"]
                        ELSE [Idle EXCEPT !.op = "try_consume", !.c = race.loc[th].c,
                                          !.by = "second"]
                   ELSE IF /\ ~r.ok
                           /\ o \in Holding
                           /\ r.bucket.tokens + Coerce(race.loc[o].c) * Scale
                                 >= Coerce(race.loc[th].c) * Scale
                           /\ try_consume(multi.minute, race.loc[th].c, now).ok
                        THEN [race.loc[o] EXCEPT !.blocked = TRUE]
                        ELSE race.loc[o]]]
    /\ UNCHANGED <<now, single, last, admitted, mlast, scen, call, calls, tool, text, _SYMBOL_CACHE, named>>

\* if not self.minute.try_consume(cost), else return True
MultiRace601(th) ==
    /\ At(th, "601")
    /\ \E r \in {try_consume(multi.minute, race.loc[th].c, now)} :
          /\ multi' = [multi EXCEPT !.minute = r.bucket]
          /\ Goto(th, IF r.ok
                      THEN [Idle EXCEPT !.op = "try_consume", !.c = race.loc[th].c,
                                        !.ret = TRUE]
                      ELSE [race.loc[th] EXCEPT !.pc = "602"])
    /\ UNCHANGED <<now, single, last, admitted, mlast, scen, call, calls, tool, text, _SYMBOL_CACHE, named>>

\* self.second.refund(cost); return False
MultiRace602(th) ==
    /\ At(th, "602")
    /\ multi' = [multi EXCEPT !.second = refund(multi.second, race.loc[th].c)]
    /\ Goto(th, [Idle EXCEPT !.op = "try_consume", !.c = race.loc[th].c, !.by = "minute",
                             !.blocked = race.loc[th].blocked])
    /\ UNCHANGED <<now, single, last, admitted, mlast, scen, call, calls, tool, text, _SYMBOL_CACHE, named>>

\* threads calling try_consume on one multi-window limiter, unsynchronised,
\* as the clock moves on
NextMultiRace ==
    \/ ClockAdvance
    \/ \E th \in Threads :
          \/ \E cost \in MultiRaceCosts : MultiRaceBegin(th, cost)
          \/ MultiRace599(th)
          \/ MultiRace601(th)
          \/ MultiRace602(th)

SpecMultiRace == Init /\ [][NextMultiRace]_vars

\* ---- claims on the single bucket -----------------------------------------

\* C4: through any sequence of try_consume calls, refund calls and clock
\* movements, with any costs, 0 <= tokens <= capacity.
C4_TokensWithinCapacity ==
    /\ 0 <= single.tokens
    /\ single.tokens <= single.capacity * Scale

\* a refund of a cost <= 0 has been clamped at capacity
C4_Witness ==
    /\ last.op = "refund"
    /\ last.cost <= 0
    /\ single.tokens = single.capacity * Scale

\* the token count try_consume checks, as the claim words it:
\* min(capacity, tokens + elapsed * refill_rate), elapsed counted when positive
C5_Recomputed ==
    Min(single.capacity * Scale,
        single.tokens + Max(0, now - single.last_refill) * single.refill_rate)

\* C5: try_consume(cost) on the recomputed tokens: if tokens >= cost it
\* subtracts exactly the (coerced) cost and returns True; otherwise it returns
\* False and leaves the recomputed count as it is, so every later request the
\* remaining tokens cover is admitted.
C5_ConsumeOrLeave ==
    [][(last'.op = "try_consume" /\ TryConsume(last'.cost)) =>
           IF C5_Recomputed >= Coerce(last'.cost) * Scale
           THEN /\ last'.ret = TRUE
                /\ single'.tokens = C5_Recomputed - Coerce(last'.cost) * Scale
           ELSE /\ last'.ret = FALSE
                /\ single'.tokens = C5_Recomputed
                /\ \A later \in Costs :
                     Coerce(later) * Scale <= C5_Recomputed
                       => try_consume(single', later, now').ok]_vars

\* capacity 10: after consume 5, consume 6 was denied and 5 tokens are left
C5_Witness ==
    /\ last.op = "try_consume"
    /\ last.cost = 6 * CostDen
    /\ last.ret = FALSE
    /\ single.tokens = 5 * Scale

\* C6 as stated: a fresh bucket admits a request exactly when the weight
\* consumed so far, that request included, is <= capacity + elapsed * rate,
\* elapsed being the time from the creation of the bucket to the request.
C6_Original ==
    [][(last'.op = "try_consume" /\ TryConsume(last'.cost)) =>
         (last'.ret <=>
            (admitted + Coerce(last'.cost)) * Scale
                <= single.capacity * Scale + now * single.refill_rate)]_vars

\* C6 amended: a fresh bucket admits a request only if the weight consumed so
\* far, that request included, is <= capacity + elapsed * rate, elapsed being
\* measured from the creation of the bucket to the latest clock reading the
\* bucket has refilled at.
C6_AdmittedWithinBudget ==
    (last.op = "try_consume" /\ last.ret) =>
        admitted * Scale
            <= single.capacity * Scale + single.last_refill * single.refill_rate

\* a request admitted on refilled tokens: more than the capacity was consumed
C6_Witness ==
    /\ last.op = "try_consume"
    /\ last.ret
    /\ admitted > single.capacity

\* ---- claims on the multi-window limiter ----------------------------------

\* a step of the model is a call multi.try_consume(mlast'.cost)
MultiCall ==
    /\ mlast'.op = "try_consume"
    /\ \E d \in {0, 1} : MultiTryConsume(mlast'.cost, d)

\* the token count a bucket checks when it reads the clock at t, as the
\* specification words it: min(capacity, tokens + elapsed * refill_rate)
Recomputed(b, t) ==
    Min(b.capacity * Scale, b.tokens + Max(0, t - b.last_refill) * b.refill_rate)

\* C1 as stated: when the second bucket accepts the cost and the minute
\* bucket rejects it, the call returns False and the second bucket's token
\* count after the call equals its token count before the call.
C1_Original ==
    [][(MultiCall /\ mlast'.denied_by = "minute") =>
           /\ mlast'.ret = FALSE
           /\ multi'.second.tokens = multi.second.tokens]_vars

\* C1 amended: when the second bucket accepts the cost and the minute bucket
\* rejects it, the call returns False and the second bucket's token count
\* after the call equals the count it had once that call had refilled it:
\* the charge is undone in full, the refill is kept.
C1_RollbackToRefilled ==
    [][(MultiCall
          /\ Recomputed(multi.second, now) >= Coerce(mlast'.cost) * Scale
          /\ Recomputed(multi.minute, now') < Coerce(mlast'.cost) * Scale) =>
           /\ mlast'.ret = FALSE
           /\ multi'.second.tokens = Recomputed(multi.second, now)]_vars

\* the minute bucket has rejected a cost the second bucket accepted
C1_Witness ==
    /\ mlast.op = "try_consume"
    /\ mlast.denied_by = "minute"
    /\ multi.second.tokens > 0

\* C2: try_consume returns True only if both buckets, refilled, hold the
\* coerced cost; on True both are decreased by exactly that cost; on False
\* neither is: no call leaves one window charged and the other not.
C2_BothOrNeither ==
    [][MultiCall =>
         LET c == Coerce(mlast'.cost) * Scale
             s == Recomputed(multi.second, now)
             m == Recomputed(multi.minute, now')
         IN  IF mlast'.ret
             THEN /\ s >= c
                  /\ m >= c
                  /\ multi'.second.tokens = s - c
                  /\ multi'.minute.tokens = m - c
             ELSE /\ multi'.second.tokens = s
                  /\ multi'.minute.tokens \in {multi.minute.tokens, m}]_vars

\* a call has been admitted and has charged both buckets
C2_Witness ==
    /\ mlast.op = "try_consume"
    /\ mlast.ret
    /\ multi.second.tokens < multi.second.capacity * Scale
    /\ multi.minute.tokens < multi.minute.capacity * Scale

\* C3: when the second bucket rejects the cost the call fails at once: the
\* minute bucket is not consulted (no second clock reading, its tokens and
\* last_refill as they were) and the second bucket's token count is not
\* decreased.
C3_SecondRejects ==
    [][(MultiCall
          /\ Recomputed(multi.second, now) < Coerce(mlast'.cost) * Scale) =>
           /\ mlast'.ret = FALSE
           /\ mlast'.denied_by = "second"
           /\ now' = now
           /\ multi'.minute = multi.minute
           /\ multi'.second.tokens >= multi.second.tokens]_vars

\* the second bucket has rejected a cost the minute bucket, which was due a
\* refill, could have covered
C3_Witness ==
    /\ mlast.op = "try_consume"
    /\ mlast.denied_by = "second"
    /\ Coerce(mlast.cost) <= PerSecond
    /\ multi.minute.tokens >= Coerce(mlast.cost) * Scale
    /\ now > multi.minute.last_refill

Dispatched ==
    /\ call'.op = "call"
    /\ <<multi, call, calls>>' # <<multi, call, calls>>

\* the calls of the limiter a wrapper can make
Consults == {"try_consume", "can_proceed"}

\* the weight in the details of an error envelope
EnvelopeWeight(env) ==
    (CHOOSE p \in env.error.details : p[1] = <<"w", "e", "i", "g", "h", "t">>)[2].chars

\* value is the rate_limit_exceeded envelope carrying weight
IsRateLimitEnvelope(result, weight) ==
    /\ result.kind = "return"
    /\ result.value.success = FALSE
    /\ result.value.error.type = "rate_limit_exceeded"
    /\ result.value.error.details = {<<<<"w", "e", "i", "g", "h", "t">>, Value("int", weight)>>}

\* C8: whenever the limiter denies the computed weight, the wrapper returns
\* an error envelope with success = false, error.type = rate_limit_exceeded
\* and, in error.details, the weight it passed to the limiter; the wrapped
\* operation is not invoked (the count of its invocations stays as it was).
C8_DeniedEnvelope ==
    [][Dispatched /\ ~call'.allowed =>
         /\ IsRateLimitEnvelope(call'.result, call'.weight)
         /\ \A i \in DOMAIN call'.trace :
               call'.trace[i].op = "try_consume" =>
                  call'.trace[i].arg = EnvelopeWeight(call'.result.value)
         /\ Count(call'.trace, {"func"}) = 0
         /\ calls' = calls]_vars

\* a call of weight 2 (the decorator's cost of the test) is denied by
\* try_consume after one call was let through
C8_Witness ==
    /\ call.op = "call"
    /\ ~call.allowed
    /\ call.weight = DecoratorCost
    /\ Count(call.trace, {"try_consume"}) = 1
    /\ IsRateLimitEnvelope(call.result, DecoratorCost)
    /\ calls = 1

\* C9: per call the cost function (when there is one) is evaluated once, then
\* the limiter is consulted exactly once, then, only if the call is admitted,
\* the wrapped operation is invoked exactly once and what it returns or raises
\* is what the wrapper returns or raises; nothing is consulted or invoked a
\* second time.
C9_PureGate ==
    [][Dispatched =>
         /\ Count(call'.trace, {"cost"}) = (IF call'.cost = "none" THEN 0 ELSE 1)
         /\ Count(call'.trace, Consults) = 1
         /\ Count(call'.trace, {"func"}) = (IF call'.allowed THEN 1 ELSE 0)
         /\ \A i, j \in DOMAIN call'.trace :
               \/ i >= j
               \/ call'.trace[i].op = "cost"
               \/ call'.trace[j].op = "func"
         /\ call'.allowed => call'.result = call'.func
         /\ calls' = calls + (IF call'.allowed THEN 1 ELSE 0)]_vars

\* an admitted call with a cost function: cost, try_consume, then the wrapped
\* operation, which raises, and the wrapper raises the same
C9_Witness ==
    /\ call.op = "call"
    /\ call.allowed
    /\ call.cost = "return"
    /\ Len(call.trace) = 3
    /\ call.trace[2].op = "try_consume"
    /\ call.result.kind = "raise"
    /\ call.result = call.func
    /\ calls >= 1

\* C10: if the cost function raises for the call's arguments the call does
\* not fail: the weight is 1, the limiter is consulted (once) with weight 1
\* and charged as for weight 1, and the operation runs, and gives the call's
\* result, if the limiter admits; if not, the call returns the
\* rate_limit_exceeded envelope with weight 1.
C10_CostRaisesFallsBack ==
    [][Dispatched /\ call'.cost = "raise" =>
         /\ call'.weight = 1
         /\ Count(call'.trace, Consults) = 1
         /\ \A i \in DOMAIN call'.trace :
               call'.trace[i].op = "try_consume" =>
                  /\ call'.trace[i].arg = 1
                  /\ \E r \in {multi_try_consume(multi, CostDen, now, now')} :
                        /\ multi' = r.limiter
                        /\ call'.allowed = r.ok
         /\ IF call'.allowed
            THEN /\ Count(call'.trace, {"func"}) = 1
                 /\ call'.result = call'.func
            ELSE /\ Count(call'.trace, {"func"}) = 0
                 /\ IsRateLimitEnvelope(call'.result, 1)]_vars

\* the cost function raised, try_consume admitted the call with weight 1 and
\* the operation ran and returned its data
C10_Witness ==
    /\ call.op = "call"
    /\ call.cost = "raise"
    /\ call.allowed
    /\ call.weight = 1
    /\ Count(call.trace, {"try_consume"}) = 1
    /\ call.result.kind = "return"
    /\ call.result.value.success
    /\ calls = 1

\* C11: for every cost specification (absent, a constant, or a function of
\* the arguments returning any integer, 0 and negative numbers included) the
\* weight reported in the rate_limit_exceeded envelope is at least 1 and is
\* the number of tokens the limiter tried to consume for that call.
C11_WeightFloor ==
    [][Dispatched /\ ~call'.allowed =>
         /\ EnvelopeWeight(call'.result.value) >= 1
         /\ \A i \in DOMAIN call'.trace :
               call'.trace[i].op = "try_consume" =>
                  EnvelopeWeight(call'.result.value) = Coerce(call'.trace[i].arg * CostDen)]_vars

\* ---- claims on concurrent calls --------------------------------------------

\* C12: under every interleaving of the read and write steps of concurrent
\* try_consume and refund calls on one WeightedRateLimiter the token count
\* never drops below 0, and the total weight admitted never exceeds the
\* tokens that were available: the initial capacity, what the elapsed time
\* refills, and what was refunded.
C12_AtomicBucket ==
    /\ single.tokens >= 0
    /\ admitted * Scale
         <= single.capacity * Scale + now * single.refill_rate + race.refunded * Scale

\* C13: with two or more calls in flight on one MultiWindowRateLimiter no
\* caller's outcome depends on the state in which another call has charged
\* the second window and is not yet decided by the minute window: no call is
\* denied for want of second-window tokens that were held by a call which is
\* itself denied by the minute window and refunded.
C13_TwoWindowAtomic ==
    \A th \in Threads :
       ~(/\ At(th, "idle")
         /\ race.loc[th].by = "minute"
         /\ race.loc[th].blocked)

\* ---- claims on the tools ----------------------------------------------------
\* a tool was called and the limiter admitted the call
ToolRan == tool.op \in {"create_order", "get_oders"} /\ tool.allowed

\* the input of the call fails validation: the symbol, or of create_order the
\* side, the order type or a quantity that is not positive
InvalidInput ==
    \/ ~validate_symbol(tool.args.symbol).ok
    \/ /\ tool.op = "create_order"
       /\ \/ ~validate_and_get_order_side(tool.args.side).ok
          \/ ~validate_and_get_order_type(tool.args.order_type).ok
          \/ tool.args.quantity <= 0

\* C14: a call of create_order or get_orders whose input fails validation
\* makes no call on the exchange client, its construction and ping included,
\* before the error is returned.
C14_ValidationIsLocal ==
    ToolRan /\ InvalidInput => Calls(tool.trace) \cap ClientCalls = {}

\* C15: a call of create_order or get_orders whose input fails validation
\* returns an envelope with success = false and error.type = validation_error.
C15_ValidationErrorType ==
    ToolRan /\ InvalidInput =>
       /\ ~tool.result.success
       /\ tool.result.error.type = "validation_error"

\* the error types of the interface
Taxonomy ==
    {"validation_error", "rate_limit_exceeded", "binance_api_error", "internal_error",
     "tool_error"}

\* C16: whatever the outcome of a tool call (validation failure, rate-limit
\* denial, API exception, transport exception, unexpected exception), the
\* error.type of the envelope returned is one of the five of the taxonomy.
C16_ClosedTaxonomy ==
    tool.op \in {"create_order", "get_oders"} /\ ~tool.result.success =>
       tool.result.error.type \in Taxonomy

\* the text part occurs in the text message
Quotes(message, part) ==
    \E i \in 1..(Len(message) - Len(part) + 1) :
       SubSeq(message, i, i + Len(part) - 1) = part

\* the envelope carries the code of the API exception: among its details, or
\* in its message as str(e) quotes it
CarriesCode ==
    \/ /\ "details" \in DOMAIN tool.result.error
       /\ <<<<"c", "o", "d", "e">>, Value("int", tool.answer.code)>> \in tool.result.error.details
    \/ Quotes(tool.result.error.message, APIErrorHead)

\* C17: when the exchange client raises during a tool call, an API exception
\* yields binance_api_error with the exchange's code in the envelope, a request
\* exception yields binance_api_error, any other exception tool_error.
C17_ExchangeErrors ==
    ToolRan /\ ~tool.answer.ok =>
       /\ ~tool.result.success
       /\ tool.answer.class = "BinanceAPIException" =>
             /\ tool.result.error.type = "binance_api_error"
             /\ CarriesCode
       /\ tool.answer.class = "BinanceRequestException" =>
             tool.result.error.type = "binance_api_error"
       /\ tool.answer.class = "Exception" => tool.result.error.type = "tool_error"

\* ---- claims on the server's tools ---------------------------------------------
\* C18: whatever the implementation of a tool does (it returns a success or
\* an error envelope, its import fails, it raises), the tool of server.py
\* returns a mapping with a boolean success field and raises nothing.
C18_ToolBoundary ==
    tool.op = "server" =>
       /\ tool.out.kind = "return"
       /\ HasGet(tool.out.value)
       /\ tool.out.value.success \in BOOLEAN

C18_Witness ==
    /\ tool.op = "server"
    /\ tool.inner.kind = "raise"
    /\ tool.out.kind = "return"
    /\ ~tool.out.value.success

\* C19: an error envelope that reaches a caller has the fields type, message
\* and timestamp, details at most besides, and a message that sanitization
\* leaves as it is; the envelopes the tools of server.py build when the
\* implementation raises are among them.
C19_EnvelopeShape ==
    tool.op = "server" /\ tool.out.kind = "return" /\ ~tool.out.value.success =>
       /\ {"type", "message", "timestamp"} \subseteq DOMAIN tool.out.value.error
       /\ DOMAIN tool.out.value.error \subseteq {"type", "message", "timestamp", "details"}
       /\ _sanitize_error_message(tool.out.value.error.message) = tool.out.value.error.message

\* ---- claims on sanitization ---------------------------------------------------
\* the message holds RunMin or more consecutive letters and digits
HasLongRun(message) ==
    \E i \in DOMAIN message : \E j \in i..Len(message) :
       /\ \A k \in i..j : IsAlnum(message[k])
       /\ Chars(SubSeq(message, i, j)) >= RunMin

\* C20: the message of the envelope create_error_response returns holds no
\* run of 32 or more consecutive letters and digits of the input, whatever
\* surrounds the run there: spaces, punctuation, underscores.
C20_LongRunsRedacted ==
    text.op = "create_error_response" => ~HasLongRun(text.result.error.message)

\* ---- claims on details --------------------------------------------------------
\* the value the sanitized details of the envelope hold under the key
DetailOut(envelope, key) == (CHOOSE p \in envelope.error.details : p[1] = key)[2]

\* C21: of the details passed to create_error_response, the value of a key
\* that is in the sensitive set when compared case-insensitively is replaced
\* by the marker whatever its type and content, every other value that is a
\* str is sanitized as a message is, and two dicts that differ only in the
\* values of sensitive keys yield the same envelope.
C21_DetailsRedacted ==
    text.op = "details" =>
       /\ \A p \in text.details :
             /\ lower(p[1]) \in SensitiveKeys =>
                   DetailOut(text.result, p[1]) = Str(<<Marker>>)
             /\ lower(p[1]) \notin SensitiveKeys /\ isinstance(p[2], "str") =>
                   /\ DetailOut(text.result, p[1]) = Str(_sanitize_error_message(p[2].chars))
                   /\ ~HasLongRun(DetailOut(text.result, p[1]).chars)
             /\ lower(p[1]) \notin SensitiveKeys /\ ~isinstance(p[2], "str") =>
                   DetailOut(text.result, p[1]) = p[2]
       /\ text.result = text.twin

C21_Witness ==
    /\ text.op = "details"
    /\ text.details # text.other
    /\ text.result = text.twin
    /\ \E p \in text.details :
          /\ p[1] # lower(p[1])
          /\ lower(p[1]) \in SensitiveKeys
          /\ isinstance(p[2], "int")
          /\ DetailOut(text.result, p[1]) = Str(<<Marker>>)

C23_StepOfLimit ==
    tool.op = "estimate_weight_for_depth" =>
       LET limit == tool.limit.value
       IN  tool.weight =
              IF tool.limit.kind # "number" THEN 5
              ELSE IF limit <= 50 * CostDen THEN 2
              ELSE IF limit <= 100 * CostDen THEN 5
              ELSE IF limit <= 500 * CostDen THEN 10
              ELSE IF limit <= 1000 * CostDen THEN 20
              ELSE 50

\* C23, amended: the weight is that step function of int(limit), the limit
\* truncated toward zero; it is one of 2, 5, 10, 20, 50, is 5 for None and
\* for a limit int() rejects, the same for the same limit, and over the
\* numbers it does not decrease when the limit grows.
C23_StepOfTruncatedLimit ==
    [][tool'.op = "estimate_weight_for_depth" =>
         LET l == PyInt(tool'.limit.value)
         IN  /\ tool'.weight \in {2, 5, 10, 20, 50}
             /\ tool'.limit.kind # "number" => tool'.weight = 5
             /\ tool'.limit.kind = "number" =>
                   /\ l <= 50 <=> tool'.weight = 2
                   /\ l > 50 /\ l <= 100 <=> tool'.weight = 5
                   /\ l > 100 /\ l <= 500 <=> tool'.weight = 10
                   /\ l > 500 /\ l <= 1000 <=> tool'.weight = 20
                   /\ l > 1000 <=> tool'.weight = 50
             /\ tool.op = "estimate_weight_for_depth" =>
                   /\ tool.limit = tool'.limit => tool.weight = tool'.weight
                   /\ /\ tool.limit.kind = "number"
                      /\ tool'.limit.kind = "number"
                      /\ tool.limit.value <= tool'.limit.value
                      => tool.weight <= tool'.weight]_vars

C23_Witness ==
    /\ tool.op = "estimate_weight_for_depth"
    /\ tool.limit.kind = "number"
    /\ tool.limit.value > 50 * CostDen
    /\ tool.limit.value < 51 * CostDen
    /\ tool.weight = 2

\* C24: an admitted call of the get-all-orders tool takes the weight of that
\* operation, estimate_weight_for_all_orders() = 10, from both buckets of the
\* spot limiter, an admitted call of create_order
\* estimate_weight_for_create_order() = 1.
C24_ChargedByWeight ==
    [][tool'.op \in {"create_order", "get_oders"} /\ tool'.allowed =>
         LET weight == IF tool'.op = "get_oders" THEN AllOrdersWeight ELSE CreateOrderWeight
         IN  /\ multi'.second.tokens = multi.second.tokens - weight * Scale
             /\ multi'.minute.tokens = multi.minute.tokens - weight * Scale]_vars

\* C25: create_order does not call the exchange client's create_order with
\* a quantity or a supplied price that is not greater than 0; such a call
\* returns a validation failure.
C25_PositiveFields ==
    tool.op = "create_order" /\ tool.allowed =>
       LET positive ==
              /\ tool.args.quantity > 0
              /\ isinstance(tool.args.price, "float") => tool.args.price.chars > 0
       IN  /\ "client.create_order" \in Calls(tool.trace) => positive
           /\ ~positive /\ ~InvalidInput =>
                 ~tool.result.success /\ tool.result.error.type = "validation_error"

\* C26: the get_orders tool of the server returns a success envelope with
\* the normalized symbol and the orders whenever the limiter admits the call,
\* the symbol is valid and the exchange client returns the orders.
C26_ServerGetOrders ==
    /\ tool.op = "server"
    /\ tool.name = "get_orders"
    /\ multi_try_consume(multi, CostDen, now, now).ok
    /\ validate_symbol(tool.symbol).ok
    /\ tool.client = "ok"
    /\ tool.answer.ok
    => /\ tool.out.kind = "return"
       /\ tool.out.value.success
       /\ tool.out.value.data
             = [symbol |-> validate_symbol(tool.symbol).value, orders |-> tool.answer.value]

C28_MissRefreshes ==
    /\ tool.op = "validate_symbol_exists"
    /\ validate_symbol(tool.symbol).ok
    /\ ~tool.out.ok
    /\ tool.out.class = "ValueError"
    => "client.get_exchange_info" \in Calls(tool.trace)

\* the call at hand found the existence check switched on
CheckEnabled ==
    /\ isinstance(tool.flag, "str")
    /\ lower(tool.flag.chars) = <<"t", "r", "u", "e">>

\* C29: unless BINANCE_MCP_VALIDATE_SYMBOL_EXISTS is "true" in some case,
\* validate_symbol_exists returns what validate_symbol returns, creates and
\* contacts no client and leaves the cache as it was; when it is, the
\* instrument list is fetched at most once per TTL window (900 s unless set):
\* a call fetches once at most, and only when the TTL has passed since the
\* snapshot was taken.
C29_OptIn ==
    tool.op = "validate_symbol_exists" =>
       /\ ~CheckEnabled =>
             /\ tool.out = validate_symbol(tool.symbol)
             /\ tool.trace = <<>>
             /\ _SYMBOL_CACHE = tool.before
       /\ _cache_ttl_seconds(None) = 900
       /\ Len(SelectSeq(tool.trace, LAMBDA c : c = "client.get_exchange_info")) <= 1
       /\ "client.get_exchange_info" \in Calls(tool.trace) =>
             tool.at - tool.before.ts >= _cache_ttl_seconds(tool.ttl) * TicksPerSec
       /\ _SYMBOL_CACHE # tool.before =>
             /\ "client.get_exchange_info" \in Calls(tool.trace)
             /\ _SYMBOL_CACHE.ts = tool.at

C29_Witness ==
    /\ tool.op = "validate_symbol_exists"
    /\ CheckEnabled
    /\ tool.out.ok
    /\ tool.before.ts > 0
    /\ tool.at > tool.before.ts
    /\ "client.get_exchange_info" \notin Calls(tool.trace)

\* ---- claims on coercion ------------------------------------------------------------
\* C30: try_consume and refund coerce the cost alike, to an integer >= 1 (a
\* cost of 0 or less counts 1, a fractional cost is truncated), so that from
\* every state and for every cost a try_consume that returns True, followed
\* at once by refund of the same cost, leaves the token count the refill of
\* that try_consume had set.
C30_RefundUndoes ==
    [][LET charged(c) == IF c < CostDen THEN 1 ELSE c \div CostDen
       IN  /\ \A c \in Costs :
                LET res == try_consume(single, c, now)
                IN  res.ok =>
                       /\ res.bucket.tokens = _refill(single, now).tokens - charged(c) * Scale
                       /\ refund(res.bucket, c).tokens = _refill(single, now).tokens
           /\ (last.op = "try_consume" /\ last'.op = "refund" /\ last'.undoes) =>
                  single'.tokens = single.tokens + charged(last.cost) * Scale]_vars

\* a fractional cost was consumed and refunded at once
C30_Witness ==
    /\ last.op = "refund"
    /\ last.undoes
    /\ last.cost = CostDen + 1
    /\ single.tokens < single.capacity * Scale

\* ---- claims on the refill -----------------------------------------------------------
\* C32: _refill never decreases the token count nor last_refill, whatever
\* the clock reading; with a reading that is not later than last_refill it
\* changes neither, and what it grants is never more than the rate times the
\* advance of last_refill, so that no stretch of clock readings is paid for
\* twice once the clock moves forward again.
C32_RefillMonotonic ==
    [][/\ \A t \in 0..MaxTime :
            LET r == _refill(single, t)
            IN  /\ r.tokens >= single.tokens
                /\ r.last_refill >= single.last_refill
                /\ t <= single.last_refill => r = single
                /\ r.tokens - single.tokens
                     <= (r.last_refill - single.last_refill) * single.refill_rate
       /\ last'.op = "try_consume" /\ TryConsume(last'.cost) =>
             /\ single'.last_refill = Max(now, single.last_refill)
             /\ single'.tokens + (IF last'.ret THEN Coerce(last'.cost) * Scale ELSE 0)
                  = _refill(single, now).tokens]_vars

\* try_consume has been denied on a bucket whose last refill lies ahead of the
\* clock
C32_Witness ==
    /\ last.op = "try_consume"
    /\ ~last.ret
    /\ now < single.last_refill
    /\ single.tokens < single.capacity * Scale

\* ---- claims on refunds ---------------------------------------------------------------
\* C37: the tokens charged for an admitted call are not given back: whatever
\* the wrapped operation of a rate-limited function does (it returns data or
\* an error envelope, or raises), both buckets stay decreased by the weight
\* of the call; nothing but the rollback inside try_consume refunds.
C37_ChargeIsKept ==
    [][(/\ calls' = calls + 1
        /\ call'.allowed
        /\ Count(call'.trace, {"try_consume"}) = 1
        /\ call'.weight >= 1) =>
           /\ multi'.second.tokens = Recomputed(multi.second, now) - call'.weight * Scale
           /\ multi'.minute.tokens = Recomputed(multi.minute, now') - call'.weight * Scale
           /\ multi' = multi_try_consume(multi, call'.weight * CostDen, now, now').limiter]_vars

\* an admitted call whose operation raised has left both buckets charged
C37_Witness ==
    /\ call.op = "call"
    /\ call.allowed
    /\ call.func.kind = "raise"
    /\ Count(call.trace, {"try_consume"}) = 1
    /\ multi.second.tokens <= (multi.second.capacity - call.weight) * Scale
    /\ multi.minute.tokens <= (multi.minute.capacity - call.weight) * Scale

\* the call at hand asked the exchange for its instrument list, and the
\* request raised
FetchRaised(c) ==
    /\ c.op = "validate_symbol_exists"
    /\ "client.get_exchange_info" \in Calls(c.trace)
    /\ ~c.out.ok
    /\ c.out.class = "BinanceRequestException"

\* C39: a refresh of the symbol cache is all or nothing: when fetching the
\* instrument list raises, snapshot and timestamp are as they were, and the
\* next call that comes to _ensure_symbol_cache (same TTL) asks again; after
\* a fetch that succeeds both are replaced; the timestamp never decreases.
C39_AllOrNothing ==
    [][tool'.op = "validate_symbol_exists" =>
          /\ FetchRaised(tool') => _SYMBOL_CACHE' = _SYMBOL_CACHE
          /\ ("client.get_exchange_info" \in Calls(tool'.trace) /\ ~FetchRaised(tool')
                 /\ tool' # tool) =>
                /\ _SYMBOL_CACHE'.ts = tool'.at
                /\ \A sym \in _SYMBOL_CACHE'.symbols : sym = upper(sym)
          /\ (FetchRaised(tool) /\ tool'.client = "ok" /\ tool'.ttl = tool.ttl) =>
                "client.get_exchange_info" \in Calls(tool'.trace)
          /\ _SYMBOL_CACHE'.ts >= _SYMBOL_CACHE.ts]_vars

\* ---- claims on limits below 1 ------------------------------------------------------
\* C31: a limiter built with a capacity or a rate of 0 or less has capacity 1
\* and a refill rate above 0: a request of cost 1 is admitted by the fresh
\* limiter, and from every state it is admitted once enough time has passed
\* (a minute at most after the latest clock reading the limiter has seen).
C31_CoercedLimits ==
    LET later == Max(now, Max(multi.second.last_refill, multi.minute.last_refill)) + Scale
    IN  /\ \A b \in {multi.second, multi.minute} : b.capacity >= 1 /\ b.refill_rate >= 1
        /\ \A capacity, rate \in (0 - 2)..0 :
              LET b == WeightedRateLimiter(capacity, rate, now)
              IN  /\ b.capacity = 1
                  /\ b.refill_rate >= 1
                  /\ try_consume(b, CostDen, now).ok
        /\ \A per_minute, per_second \in (0 - 2)..0 :
              LET m == MultiWindowRateLimiter(per_minute, per_second, now)
              IN  /\ m.second.capacity = 1
                  /\ m.minute.capacity = 1
                  /\ multi_try_consume(m, CostDen, now, now).ok
        /\ mlast.op = "new" => multi_try_consume(multi, CostDen, now, now).ok
        /\ multi_try_consume(multi, CostDen, later, later).ok

\* the limiter built with limits below 1 has admitted a request and is empty
C31_Witness ==
    /\ multi.second.capacity = 1
    /\ multi.second.refill_rate = 1
    /\ multi.minute.capacity = 1
    /\ mlast.ret
    /\ multi.second.tokens < Scale
    /\ multi.minute.tokens < Scale

\* ---- claims on the weight admitted --------------------------------------------------
\* C34 as stated: the weight a multi-window limiter has admitted since its
\* creation, t being the time elapsed since then, is at most
\* min(per_second + t * per_second, per_minute + t * per_minute / 60).  The
\* limits are read off the windows: a window's capacity is its limit when the
\* limit is 1 or more, and a second window that refills less than 60 tokens
\* a minute was given a limit of 0 or less, whose bound is 0 at most.
C34_Original ==
    LET bound(b) == b.capacity * Scale + now * b.refill_rate
    IN  /\ admitted * Scale
              <= IF multi.second.refill_rate < SecondsPerMinute THEN 0
                 ELSE bound(multi.second)
        /\ admitted * Scale <= bound(multi.minute)

\* C34 amended: the weight admitted is at most, for each window, its capacity
\* (the limit, or 1 if the limit is less) plus what it refills (at the
\* limit's rate, or 1 token a minute if that is less) in the time from the
\* creation to the latest clock reading the window has refilled at, the
\* calls denied and rolled back included.
C34_AdmittedWithinBudget ==
    \A b \in {multi.second, multi.minute} :
       /\ admitted * Scale <= b.capacity * Scale + b.last_refill * b.refill_rate
       /\ b.tokens + admitted * Scale <= b.capacity * Scale + b.last_refill * b.refill_rate

\* the minute window has just refused a request the second window had
\* taken, all of its capacity being admitted
C34_Witness ==
    /\ mlast.denied_by = "minute"
    /\ admitted >= multi.minute.capacity
    /\ multi.second.tokens > 0

\* ---- claims on costs above a capacity -----------------------------------------------
\* C35: a request whose coerced cost is above the capacity of one of the two
\* windows is denied in every reachable state, whenever it is made (at once,
\* a tick, a second, a minute or an hour later), and the denial leaves
\* neither window with fewer tokens than before.
C35_AboveCapacityDenied ==
    \A cost \in {c \in MultiCosts :
                   Coerce(c) > Min(multi.second.capacity, multi.minute.capacity)} :
       \A wait \in {0, 1, TicksPerSec, Scale, SecondsPerMinute * Scale}, d \in {0, 1} :
          LET res == multi_try_consume(multi, cost, now + wait, now + wait + d)
          IN  /\ ~res.ok
              /\ res.limiter.second.tokens >= multi.second.tokens
              /\ res.limiter.minute.tokens >= multi.minute.tokens
              /\ res.denied_by = "minute" =>
                    res.limiter.second.tokens = Recomputed(multi.second, now + wait)

\* the minute window has refused a cost above its capacity that the second
\* window had taken, and the second window is full again
C35_Witness ==
    /\ mlast.denied_by = "minute"
    /\ Coerce(mlast.cost) > multi.minute.capacity
    /\ Coerce(mlast.cost) <= multi.second.capacity
    /\ multi.second.tokens = multi.second.capacity * Scale

\* ---- claims on the second window ------------------------------------------------------
\* a limiter built with per_second >= per_minute: its second window is at
\* least as large as its minute window and refills at least as fast (the
\* limiters built with limits below 1 are coerced to the same two windows
\* whichever of the two limits is the larger)
SecondAtLeastMinute ==
    /\ multi.second.capacity >= multi.minute.capacity
    /\ multi.second.refill_rate >= multi.minute.refill_rate

\* C36 as stated: in a limiter built with per_second >= per_minute the tokens
\* available in the second window are in every state at least those available
\* in the minute window, and the second window denies no request the minute
\* window would admit.
C36_Original ==
    [][SecondAtLeastMinute =>
           /\ Recomputed(multi.second, now) >= Recomputed(multi.minute, now)
           /\ (MultiCall /\ mlast'.denied_by = "second") =>
                 Recomputed(multi.minute, now) < Coerce(mlast'.cost) * Scale]_vars

\* C36: in a limiter built with per_second >= per_minute, as long as no call
\* has read the clock before the reading a window had last refilled at and
\* the clock now reads no earlier than either window's last refill, the
\* tokens available in the second window are at least those available in the
\* minute window, and a request the second window denies is one the minute
\* window would deny too.
C36_SecondNotBelowMinute ==
    [][(/\ SecondAtLeastMinute
        /\ ~mlast.behind
        /\ now >= multi.second.last_refill
        /\ now >= multi.minute.last_refill) =>
           /\ Recomputed(multi.second, now) >= Recomputed(multi.minute, now)
           /\ (MultiCall /\ mlast'.denied_by = "second") =>
                 Recomputed(multi.minute, now) < Coerce(mlast'.cost) * Scale]_vars

\* the limiter with equal limits has denied a request in its second window
C36_Witness ==
    /\ multi.second.capacity = multi.minute.capacity
    /\ multi.second.refill_rate > multi.minute.refill_rate
    /\ mlast.denied_by = "second"
    /\ ~mlast.behind
    /\ multi.second.tokens < multi.second.capacity * Scale

\* ---- claims on the named limiters ------------------------------------------------------
LimiterNames == {"spot", "futures", "sapi"}

\* the limiter of that name
Named(name) == IF name = "spot" THEN multi ELSE named[name]

\* a step of the model is a call of try_consume on the limiter of that name
NamedCall(name) ==
    /\ mlast'.op = "try_consume"
    /\ NamedTryConsume(name, mlast'.cost)

\* a step of the model is a call of create_order or of get_oders
SpotToolCall ==
    \/ /\ tool'.op = "create_order"
       /\ CreateOrder(tool'.args.symbol, tool'.args.side, tool'.args.order_type,
                      tool'.args.quantity, tool'.client)
    \/ /\ tool'.op = "get_oders"
       /\ GetOders(tool'.args.symbol, tool'.client)

\* C33: a call of try_consume on one of the spot, futures and sapi limiters
\* leaves the two windows of the other two as they were, tokens and
\* timestamps; a call of create_order or of get_oders leaves the futures and
\* sapi limiters as they were and does to the spot limiter what try_consume
\* of weight 1 on it does, so both tools draw on the spot limiter's budget.
C33_NamedIndependent ==
    [][/\ \A name \in LimiterNames :
             NamedCall(name) =>
                 /\ \A other \in {"futures", "sapi"} \ {name} : named'[other] = named[other]
                 /\ name # "spot" => multi' = multi
       /\ SpotToolCall =>
             /\ named' = named
             /\ multi' = multi_try_consume(multi, CreateOrderWeight * CostDen, now, now).limiter
             /\ tool'.allowed = multi_try_consume(multi, CreateOrderWeight * CostDen, now, now).ok]_vars

\* get_oders has been refused after the spot budget was used up by
\* create_order and by try_consume on the spot limiter, while the sapi
\* limiter has admitted a call and the futures limiter is still full
C33_Witness ==
    /\ tool.op = "get_oders"
    /\ ~tool.allowed
    /\ multi.minute.tokens < Scale
    /\ mlast.op = "try_consume"
    /\ mlast.on = "sapi"
    /\ mlast.ret
    /\ named.sapi.minute.tokens < named.sapi.minute.capacity * Scale
    /\ named.futures.minute.tokens = named.futures.minute.capacity * Scale
    /\ named.futures.second.tokens = named.futures.second.capacity * Scale

\* ---- claims on retries ------------------------------------------------------------------
\* the last call of try_consume was denied a cost within both capacities
Retrying ==
    /\ mlast.op = "try_consume"
    /\ ~mlast.ret
    /\ Coerce(mlast.cost) <= multi.second.capacity
    /\ Coerce(mlast.cost) <= multi.minute.capacity

\* C38: a caller denied a cost within both capacities who keeps calling
\* try_consume with that cost while the clock advances, no other call being
\* made, is eventually admitted; a denied retry leaves in either window, at
\* every later clock reading, the tokens that were to be had there without
\* it.
C38_EventuallyAdmitted ==
    /\ [][((\E d \in {0, 1}, e \in {0, 1} : RetryTryConsume(d, e)) /\ ~mlast'.ret) =>
             \A t \in now'..Horizon :
                 /\ Recomputed(multi'.second, t) = Recomputed(multi.second, t)
                 /\ Recomputed(multi'.minute, t) = Recomputed(multi.minute, t)]_vars
    /\ Retrying ~> mlast.ret

\* a cost equal to the capacity of the minute window has been admitted a
\* minute or more after the limiter was built, the retries before it denied
C38_Witness ==
    /\ mlast.op = "try_consume"
    /\ mlast.ret
    /\ Coerce(mlast.cost) = multi.minute.capacity
    /\ now >= Scale
    /\ multi.minute.tokens < Scale

====
